---- MODULE Spec2Model ----
(***************************************************************************)
(* State-machine model of the sign-structure calculator (src/src/App.tsx): *)
(* the React component's input state, its adjustment effects, and the      *)
(* handlers that change it (sign-type switch, anchor selection, embedment  *)
(* entry, catalog import, defaults, configuration import, auto design),    *)
(* together with the pure checkers (anchor tensions, plate snapping,       *)
(* foundation stability).                                                  *)
(*                                                                         *)
(* Number representation.  The program computes in floating point; the     *)
(* model computes in exact integer arithmetic on fixed-point quantities:   *)
(*   footing lengths B, D, H, z, t1, t2, cover, cgHeight : units of 0.05 m *)
(*   forces (foundation side)                            : units of 1/16 N *)
(*   moments (foundation side)                           : 1/16 N x 0.05 m *)
(*   anchor geometry, embedment                          : mm              *)
(*   anchor capacities                                   : N               *)
(* Ratios that are compared are never rounded: they are kept as fractions  *)
(* and compared by FracLeq / FracLess, which need no product wider than    *)
(* 31 bits.  Three quantities are rounded down: the wind force (to 1/16    *)
(* N), the concrete cone capacity of an anchor (to 1 N) and the rates of   *)
(* the nearest-footing score (to 1/8000 of a score unit).                  *)
(***************************************************************************)
EXTENDS Integers, Sequences, FiniteSets, TLC

\* F(v), with v evaluated once and handed to F as a value
Bind(v, F(_)) == CHOOSE r \in {F(x) : x \in {v}} : TRUE

(***************************************************************************)
(* Exact comparison of non-negative fractions (Euclid's algorithm).        *)
(***************************************************************************)
RECURSIVE FracLeq(_, _, _, _)
\* a/b <= c/d   for a, c >= 0 and b, d > 0
FracLeq(a, b, c, d) ==
  LET qa == a \div b
      qc == c \div d
      ra == a % b
      rc == c % d
  IN  IF qa < qc THEN TRUE
      ELSE IF qa > qc THEN FALSE
      ELSE IF ra = 0 THEN TRUE
      ELSE IF rc = 0 THEN FALSE
      ELSE FracLeq(d, rc, b, ra)

\* a/b < c/d
FracLess(a, b, c, d) == ~FracLeq(c, d, a, b)

RECURSIVE MulDivBase(_, _, _, _)
\* <<quotient, remainder>> of (a * b) / c for a, b >= 0, c > 0, computed
\* digit by digit of b in the given base so that no intermediate product
\* overflows; needs (2 base - 1) * c < 2^31
MulDivBase(a, b, c, base) ==
  IF b = 0 THEN <<0, 0>>
  ELSE LET hi == MulDivBase(a, b \div base, c, base)
           t  == base * hi[2] + (a % c) * (b % base)
       IN  <<base * hi[1] + (a \div c) * (b % base) + (t \div c), t % c>>

MulDivQR(a, b, c) ==
  MulDivBase(a, b, c,
             IF c < 2000000 THEN 512
             ELSE IF c < 34000000 THEN 32
             ELSE IF c < 143000000 THEN 8
             ELSE IF c < 306000000 THEN 4
             ELSE 2)

MulDiv(a, b, c) == MulDivQR(a, b, c)[1]

RECURSIVE ISqrtBits(_, _, _)
ISqrtBits(n, s, bit) ==
  IF bit = 0 THEN s
  ELSE LET t == s + bit
       IN  ISqrtBits(n, IF t * t <= n THEN t ELSE s, bit \div 2)

\* floor of the square root of n, 0 <= n < 2^30
ISqrt(n) == ISqrtBits(n, 0, 16384)

Max2(a, b) == IF a >= b THEN a ELSE b
Min2(a, b) == IF a <= b THEN a ELSE b

RECURSIVE GCD(_, _)
GCD(a, b) == IF b = 0 THEN a ELSE Bind(a % b, LAMBDA r : GCD(b, r))

Abs(a) == IF a < 0 THEN -a ELSE a

\* a value the catalog leaves out (undefined in the source)
Undef == -1
\* v ?? dflt
Coalesce(v, dflt) == IF v = Undef THEN dflt ELSE v
\* v || dflt  (undefined and 0 are both falsy)
OrElse(v, dflt) == IF v = Undef \/ v = 0 THEN dflt ELSE v

(***************************************************************************)
(* Catalogs and program constants                                          *)
(***************************************************************************)
\* ANCHOR_CONC: k * phi * psiEdge * psiCrack = 7.0 * 0.75 * 0.85 * 0.85
\*            = 3.793125 = 6069 / 1600
ANCHOR_CONC == [num |-> 6069, den |-> 1600]

\* PASSIVE_SOIL.Kp
PASSIVE_SOIL_Kp == 3

PLATE_T_OPTIONS == <<16, 19, 22, 25, 28, 32, 36>>

Anchor(n, dia, ta, va, me, ms, hr) ==
  [name |-> n, d |-> dia, Ta |-> ta, Va |-> va, min_e |-> me, min_s |-> ms, hefRec |-> hr]

DEFAULT_ANCHORS ==
  << Anchor("M12 A-BOLT", 12, 12000, 5000, 18, 36, 150),
     Anchor("M16 A-BOLT", 16, 22000, 9000, 24, 48, 200),
     Anchor("M20 A-BOLT", 20, 35000, 14000, 30, 60, 250),
     Anchor("M24 A-BOLT", 24, 51000, 20000, 36, 72, 300),
     Anchor("M30 A-BOLT", 30, 75000, 30000, 45, 90, 380),
     Anchor("M32 A-BOLT", 32, 90000, 36000, 48, 96, 420) >>

\* the regulated catalog; hefRec = 20 d is added by the map at its end
AbrRow(n, dia, ta, va) == Anchor(n, dia, ta, va, Undef, Undef, dia * 20)

ABR_ANCHORS ==
  << AbrRow("M16 ABR", 16, 36900, 21300),
     AbrRow("M20 ABR", 20, 57600, 33200),
     AbrRow("M22 ABR", 22, 71200, 41100),
     AbrRow("M24 ABR", 24, 83000, 47900),
     AbrRow("M27 ABR", 27, 108000, 62400),
     AbrRow("M30 ABR", 30, 132000, 76200),
     AbrRow("M33 ABR", 33, 163000, 94100),
     AbrRow("M36 ABR", 36, 192000, 111000),
     AbrRow("M39 ABR", 39, 229000, 132000),
     AbrRow("M42 ABR", 42, 263000, 152000),
     AbrRow("M45 ABR", 45, 282000, 163000),
     AbrRow("M48 ABR", 48, 316000, 182000) >>

\* family "H" of DEFAULT_SECTIONS (the family selected by default);
\* Z in 0.01 cm^3, radius of gyration in 0.01 cm
SectionOf(f, n, zx, zy, rx, ry) ==
  [family |-> f, name |-> n, Zx |-> zx, Zy |-> zy, ix |-> rx, iy |-> ry]

Section(n, zx, zy, rx, ry) == SectionOf("H", n, zx, zy, rx, ry)

DEFAULT_SECTIONS ==
  << Section("H-100x50x5x7", 3750, 591, 398, 112),
     Section("H-100x100x6x8", 7560, 2670, 418, 249),
     Section("H-125x60x6x8", 6550, 971, 495, 132),
     Section("H-150x75x5x7", 8880, 1320, 611, 166),
     Section("H-150x150x7x10", 21600, 7510, 640, 377),
     Section("H-175x175x7.5x11", 33100, 11200, 750, 437),
     Section("H-200x100x5.5x8", 18100, 2670, 823, 224),
     Section("H-200x200x8x12", 47200, 16000, 862, 502) >>

\* array.find(a => a.name === n) as the index of the first entry with that
\* name; 0 when there is none (find gives undefined)
RECURSIVE FindFrom(_, _, _)
FindFrom(list, n, i) ==
  IF i > Len(list) THEN 0
  ELSE IF list[i].name = n THEN i
  ELSE FindFrom(list, n, i + 1)

Find(list, n) == FindFrom(list, n, 1)

\* initialABR: the ABR entry with d = 27
initialABR == ABR_ANCHORS[5]

(***************************************************************************)
(* Exact rationals <<n, d>> with d > 0, kept in lowest terms.              *)
(***************************************************************************)
Rat(n, d) ==
  Bind(<<n, d>>, LAMBDA p :
    IF p[1] = 0 THEN <<0, 1>>
    ELSE Bind(GCD(Abs(p[1]), Abs(p[2])) * (IF p[2] < 0 THEN -1 ELSE 1),
              LAMBDA g : <<p[1] \div g, p[2] \div g>>))

RInt(n) == <<n, 1>>

RMul(a, b) ==
  Bind(<<a, b>>, LAMBDA p :
    Bind(<<Rat(p[1][1], p[2][2]), Rat(p[2][1], p[1][2])>>, LAMBDA q :
      IF q[1][1] = 0 \/ q[2][1] = 0 THEN <<0, 1>>
      ELSE <<q[1][1] * q[2][1], q[1][2] * q[2][2]>>))

RDiv(a, b) == Bind(b, LAMBDA q : RMul(a, Rat(q[2], q[1])))

RAdd(a, b) ==
  Bind(<<a, b>>, LAMBDA p :
    Bind(GCD(p[1][2], p[2][2]), LAMBDA g :
      Rat(p[1][1] * (p[2][2] \div g) + p[2][1] * (p[1][2] \div g),
          (p[1][2] \div g) * p[2][2])))

RLeq(a, b) ==
  IF a[1] <= 0 /\ b[1] >= 0 THEN TRUE
  ELSE IF a[1] > 0 /\ b[1] <= 0 THEN FALSE
  ELSE IF a[1] > 0 THEN FracLeq(a[1], a[2], b[1], b[2])
  ELSE FracLeq(-b[1], b[2], -a[1], a[2])

RMax(a, b) == Bind(<<a, b>>, LAMBDA p : IF RLeq(p[1], p[2]) THEN p[2] ELSE p[1])

RECURSIVE RMaxOver(_, _, _)
\* Math.max(...list, 0) for a list of rationals
RMaxOver(list, i, acc) ==
  IF i > Len(list) THEN acc
  ELSE Bind(RMax(acc, list[i]), LAMBDA m : RMaxOver(list, i + 1, m))

(***************************************************************************)
(* Base-plate stock thickness.  Requested thicknesses are in 0.1 mm, the   *)
(* stock values in mm.                                                     *)
(***************************************************************************)
RECURSIVE SnapFrom(_, _)
SnapFrom(tReq10, i) ==
  IF i > Len(PLATE_T_OPTIONS) THEN PLATE_T_OPTIONS[Len(PLATE_T_OPTIONS)]
  ELSE IF 10 * PLATE_T_OPTIONS[i] >= tReq10 THEN PLATE_T_OPTIONS[i]
  ELSE SnapFrom(tReq10, i + 1)

RECURSIVE SnapFromStrict(_, _)
SnapFromStrict(tReq10, i) ==
  IF i > Len(PLATE_T_OPTIONS) THEN PLATE_T_OPTIONS[Len(PLATE_T_OPTIONS)]
  ELSE IF 10 * PLATE_T_OPTIONS[i] > tReq10 THEN PLATE_T_OPTIONS[i]
  ELSE SnapFromStrict(tReq10, i + 1)

\* snapPlateT with the comparison t > tReq in place of t >= tReq
snapPlateT_strict(tReq10) == SnapFromStrict(tReq10, 1)

snapPlateT(tReq10) == SnapFrom(tReq10, 1)

(***************************************************************************)
(* Anchor tensions of the 2 x 2 group.  M is a rational in N m, offsets    *)
(* are rationals in mm, sumY2 is in m^2 and the tensions in N.             *)
(***************************************************************************)
AnchorCoords(anchorGauge, anchorPitch) ==
  LET xh == Rat(anchorPitch, 2)
      yh == Rat(anchorGauge, 2)
      neg(r) == <<-r[1], r[2]>>
  IN  << [id |-> "UL", x |-> neg(xh), y |-> yh],
         [id |-> "UR", x |-> xh, y |-> yh],
         [id |-> "LL", x |-> neg(xh), y |-> neg(yh)],
         [id |-> "LR", x |-> xh, y |-> neg(yh)] >>

RECURSIVE SumY2From(_, _)
SumY2From(coords, i) ==
  IF i > Len(coords) THEN RInt(0)
  ELSE Bind(RDiv(coords[i].y, RInt(1000)),
            LAMBDA ym : RAdd(RMul(ym, ym), SumY2From(coords, i + 1)))

TensionsWith(M, coords, sumY2) ==
  [list |-> [i \in 1..Len(coords) |->
               [id |-> coords[i].id, x |-> coords[i].x, y |-> coords[i].y,
                T |-> IF sumY2[1] > 0
                      THEN RDiv(RMul(M, RDiv(coords[i].y, RInt(1000))), sumY2)
                      ELSE RInt(0)]],
   sumY2 |-> sumY2]

\* computeAnchorTensions with sumY2 taken over the upper row only
computeAnchorTensions_upperRow(M, anchorGauge, anchorPitch) ==
  Bind(<<M, AnchorCoords(anchorGauge, anchorPitch)>>, LAMBDA p :
    Bind(SumY2From(SubSeq(p[2], 1, 2), 1), LAMBDA sumY2 : TensionsWith(p[1], p[2], sumY2)))

computeAnchorTensions(M, anchorGauge, anchorPitch) ==
  Bind(<<M, AnchorCoords(anchorGauge, anchorPitch)>>, LAMBDA p :
    Bind(SumY2From(p[2], 1), LAMBDA sumY2 : TensionsWith(p[1], p[2], sumY2)))

\* Math.max(...T_each.map(o => Math.max(0, o.T)), 0), summed instead of maximised
TmaxOf_rowTotal(T_each) ==
  Bind(T_each, LAMBDA l :
    LET pos(t) == IF t[1] > 0 THEN t ELSE RInt(0)
    IN  RAdd(RAdd(pos(l[1].T), pos(l[2].T)), RAdd(pos(l[3].T), pos(l[4].T))))

\* Tmax = Math.max(...T_each.map(o => Math.max(0, o.T)), 0)
TmaxOf(T_each) ==
  Bind(T_each, LAMBDA l :
    RMaxOver([i \in 1..Len(l) |-> RMax(RInt(0), l[i].T)], 1, RInt(0)))

\* T_row = Math.max(...T_each.filter(o => o.y > 0).map(o => o.T), 0)
T_rowOf(T_each) ==
  Bind(T_each, LAMBDA l :
    RMaxOver([i \in 1..Len(l) |-> IF l[i].y[1] > 0 THEN l[i].T ELSE RInt(0)], 1, RInt(0)))

(***************************************************************************)
(* State of the component                                                  *)
(***************************************************************************)
VARIABLES
  signType,           \* "freestanding" | "wall" | "projecting"
  anchors,            \* the general anchor catalog (replaced by imports)
  anchor,             \* the selected anchor record
  anchorQty,
  anchorEmbed,        \* mm
  plateT,             \* mm
  sectionName,
  sections,           \* the section catalog (replaced by imports)
  family,             \* the section family shown in the section select
  width, height,      \* panel size, 0.1 m
  panelKg,
  shapeCf,            \* 0.1
  cgHeight,           \* 0.05 m
  FhInput,            \* in forceUnit
  forceUnit,          \* "N" | "kgf"
  postQty,            \* number of columns
  hasInterPostConnection,
  cfMode,             \* "SHAPE_ONLY" | "CF_INCLUDES_ALL"
  windKz, windGf, windIw, windKd, windKt,   \* wind modifiers, 0.1
  footShape,          \* "RECT" | "L"
  footB, footD, footH,\* 0.05 m
  embedDepth,         \* 0.05 m
  embedDepthAuto,
  etaPassive,         \* 0.1
  soilQa,             \* kN/m^2
  reqFS_OT, reqFS_SL, \* 0.1
  allowUpliftOK,
  foundationOptMode,  \* "BD" | "VOL"
  lastOp,             \* the handler that ran last
  lastAlert,          \* what that handler reported with alert(), "" if nothing
  call,               \* the last application of a pure function, for their checks
  whatIfMemo          \* the useMemo of whatIf: the values its series was built from

anchorVars == <<signType, anchors, anchor, anchorQty, anchorEmbed>>
memberVars == <<plateT, sectionName, sections, family>>
colVars    == <<postQty, hasInterPostConnection, forceUnit>>
windVars   == <<cfMode, windKz, windGf, windIw, windKd, windKt>>
loadVars   == <<width, height, panelKg, shapeCf, cgHeight, FhInput, colVars, windVars>>
footVars   == <<footShape, footB, footD, footH, embedDepth, embedDepthAuto>>
soilVars   == <<etaPassive, soilQa, reqFS_OT, reqFS_SL, allowUpliftOK, foundationOptMode>>
vars == <<anchorVars, memberVars, loadVars, footVars, soilVars, lastOp, lastAlert, call,
          whatIfMemo>>

(***************************************************************************)
(* Inputs no modelled handler changes from their initial useState value    *)
(***************************************************************************)
anchorGauge == 200
anchorPitch == 160
edge1 == 50
edge2 == 50
spacing == 120
plateFy == 235
a_clear == 80
Fy == 235
\* K * L = 1.0 * 3.0 m, in cm
KL_cm == 300
bendAxis == "x"
windV0 == 34
\* seismicC0 = 0.3, in 0.1
seismicC0 == 3
\* mu = 0.5, in 0.1
mu == 5
\* gammaBearing = 1.0, in 0.1
gammaBearing == 10
Fc == 21
concUnitW == 24
soilUnitW == 18
\* coverT = 0.3 m, L_t1 = L_t2 = 0.2 m, in 0.05 m
coverT == 6
L_t1 == 4
L_t2 == 4

(***************************************************************************)
(* Loads (per column).  Forces in 1/16 N, moments in 1/16 N x 0.05 m.      *)
(***************************************************************************)
\* G = 9.8 m/s^2 in 0.1
G == 98

\* q0 = wind_q0(windV0) = 0.613 V0^2, in 1/1000 N/m^2
q0 == 613 * windV0 * windV0

\* the modifiers as the pressure uses them, 0.1
Kz_eff == IF cfMode = "CF_INCLUDES_ALL" THEN 10 ELSE windKz
Gf_eff == IF cfMode = "CF_INCLUDES_ALL" THEN 10 ELSE windGf
Iw_eff == IF cfMode = "CF_INCLUDES_ALL" THEN 10 ELSE windIw
Kd_eff == IF cfMode = "CF_INCLUDES_ALL" THEN 10 ELSE windKd
Kt_eff == IF cfMode = "CF_INCLUDES_ALL" THEN 10 ELSE windKt

\* qz = q0 Kz Gf Iw Kd Kt, in 1/1000 N/m^2
qz == MulDiv(q0, Kz_eff * Gf_eff * Iw_eff * Kd_eff * Kt_eff, 100000)

\* Fw_total = qz * shapeCf * width * height (areaFactor 1.0), rounded down
\* to 1/16 N
Fw_total == MulDiv(qz * shapeCf, width * height, 62500)

\* Wself_total = panelKg * G
Wself_total == (panelKg * G * 16) \div 10

nCol_raw == Max2(1, postQty)

nCol_ignoreFlag == nCol_raw

nCol == IF hasInterPostConnection THEN nCol_raw ELSE 1

Fh_auto_total ==
  IF signType = "freestanding"
  THEN Max2(Fw_total, (Wself_total * seismicC0) \div 10)
  ELSE Fw_total + (Wself_total * seismicC0) \div 10

Fh_manual_total_N_unitless == 16 * Max2(0, FhInput)

Fh_manual_total_N ==
  IF forceUnit = "kgf" THEN (16 * Max2(0, FhInput) * G) \div 10
  ELSE 16 * Max2(0, FhInput)

Fh_total == IF Fh_manual_total_N > 0 THEN Fh_manual_total_N ELSE Fh_auto_total

Fh == Fh_total \div nCol

Wself_perCol == Wself_total \div nCol

\* M = Fh * cgHeight (free-standing), Fh * 0.8 (projecting), Fh * 0.1 (wall)
M ==
  IF signType = "freestanding" THEN Fh * cgHeight
  ELSE IF signType = "projecting" THEN Fh * 16
  ELSE Fh * 2

\* M in N m, as a rational
M_Nm == Rat(M, 320)

(***************************************************************************)
(* Member, anchor and base-plate checks                                    *)
(***************************************************************************)
anchorsForUI == IF signType = "freestanding" THEN ABR_ANCHORS ELSE anchors

\* the enforced minimum embedment of anchor a under sign type sig:
\* 20 d when free-standing, otherwise hefRec || 10 d
minHef(sig, a) ==
  IF sig = "freestanding" THEN a.d * 20 ELSE OrElse(a.hefRec, a.d * 10)

hefReq ==
  IF signType = "freestanding" THEN anchor.d * 20
  ELSE OrElse(anchor.hefRec, anchor.d * 10)

hefOK == anchorEmbed >= hefReq

\* Math.round(1.5 d) and Math.round(3 d)
minEdgeOf(a) == Coalesce(a.min_e, (3 * a.d + 1) \div 2)
minSpaceOf(a) == Coalesce(a.min_s, 3 * a.d)

\* edge1OK && edge2OK && spacingOK for anchor a
EdgeSpacingOK(a) ==
  /\ edge1 >= minEdgeOf(a)
  /\ (signType = "projecting" \/ edge2 >= minEdgeOf(a))
  /\ spacing >= minSpaceOf(a)

\* Ta_conc = k sqrt(Fc) hef^1.5 phi psiEdge psiCrack, in whole N (rounded down;
\* sqrt(Fc hef) carried to 0.01)
Ta_concOf(hef) ==
  IF Fc > 0 /\ hef > 0
  THEN MulDiv(ANCHOR_CONC.num * hef, ISqrt(Fc * hef * 10000), 100 * ANCHOR_CONC.den)
  ELSE 0

T_each == computeAnchorTensions(M_Nm, anchorGauge, anchorPitch).list

Tmax == TmaxOf(T_each)

\* the count the shear is divided by in the main check
ANCHOR_CALC_QTY == Max2(2, IF anchorQty = 0 THEN 4 ELSE anchorQty)

\* the count the shear is divided by in the auto design
ANCHOR_CALC_QTY_FIXED == 4

\* V_anchor = Fh / ANCHOR_CALC_QTY, in N
V_anchor == Rat(Fh, 16 * ANCHOR_CALC_QTY)

\* (Ta_eff > 0 ? tmax / Ta_eff : Infinity) + (Va > 0 ? v / Va : 0) < 1
EtaBelowOne(tmax, Ta_eff, v, Va) ==
  IF Ta_eff <= 0 THEN FALSE
  ELSE LET x == RDiv(tmax, RInt(Ta_eff))
           y == IF Va > 0 THEN RDiv(v, RInt(Va)) ELSE RInt(0)
       IN  /\ y[1] < y[2]
           /\ ~RLeq(<<y[2] - y[1], y[2]>>, x)

Ta_eff == Min2(anchor.Ta, Ta_concOf(anchorEmbed))

\* etaAnchorLinear < 1
anchorOK == EtaBelowOne(Tmax, Ta_eff, V_anchor, anchor.Va)

\* Z_cand of section s, in 0.01 cm3: a missing modulus counts as 50 cm3
Z_cand(s) ==
  IF bendAxis = "x" THEN Coalesce(s.Zx, 5000) ELSE Coalesce(s.Zy, 5000)

\* eta_cand < 1 && lambda_cand <= 200 for section s
SectionFits(s) ==
  LET Z100 == IF bendAxis = "x" THEN Coalesce(s.Zx, 5000) ELSE Coalesce(s.Zy, 5000)
      r100 == IF bendAxis = "x" THEN Coalesce(s.ix, 300) ELSE Coalesce(s.iy, 300)
  IN  /\ 15 * M < 32 * Fy * Z100
      /\ 100 * KL_cm <= 200 * r100

\* computePlateThickness, as the smallest number of 0.1 mm not below it:
\* t^2 = 6 (T_row a / max(1, s)) / max(2 Fy / 3, 1)
computePlateThickness(T_row, a_mm, s_mm, fy) ==
  LET c  == IF 2 * fy >= 3 THEN Rat(900 * a_mm, Max2(1, s_mm) * fy)
            ELSE Rat(600 * a_mm, Max2(1, s_mm))
      p  == MulDivQR(T_row[1], c[1], c[2])
      q2 == p[1] \div T_row[2]
      up == IF p[1] % T_row[2] > 0 \/ p[2] > 0 THEN 1 ELSE 0
      n  == q2 + up
      k  == ISqrt(n)
  IN  IF k * k = n THEN k ELSE k + 1

t_req == computePlateThickness(T_rowOf(T_each), Max2(10, a_clear), Max2(40, anchorPitch), plateFy)

plateOK == 10 * plateT >= t_req

(***************************************************************************)
(* Foundation stability, evalFoundation(B, D, H).                          *)
(* Lengths are in 0.05 m (u), forces in 1/16 N (f), so that                *)
(*   concrete weight  = 2 concUnitW A H            [f],  A in u^2          *)
(*   cover weight     = 2 soilUnitW A coverT       [f]                     *)
(*   Pp_raw           = Kp soilUnitW D z^2         [f]                     *)
(*   1 f/u^2          = 25 N/m^2                                           *)
(* B, D > 0.  Quotients are kept as pairs <<numerator, denominator>>:      *)
(*   e         = <<|M|, N>>                         [u]                    *)
(*   sigma_max = f1 * f2 for the two pairs f1, f2   [f/u^2]                *)
(*   FS_OT     = <<6 Mr, 6 |M|>>  (denominator 0 stands for the 1e-9 floor)*)
(*   R_slide   = int + frac                         [f]                    *)
(* The steps of the function are operators of their own, so that the       *)
(* footing search evaluates no more of a candidate than it reads.          *)
(***************************************************************************)
\* qa_allow_final = min(soilQa / gammaBearing, 0.25 Fc 1000), kN/m^2
qa_allow_final ==
  IF RLeq(Rat(10 * soilQa, gammaBearing), RInt(250 * Fc))
  THEN Rat(10 * soilQa, gammaBearing)
  ELSE RInt(250 * Fc)

\* A (and A_weight): B t1 + D t2 - t1 t2 for the L shape, else B D
AreaOf(B, D) ==
  IF footShape = "L"
  THEN Max2(B * Max2(0, L_t1) + D * Max2(0, L_t2) - Max2(0, L_t1) * Max2(0, L_t2), 0)
  ELSE Max2(B * D, 0)

\* N = Wconc + Wcover + Wself_perCol
VerticalOf(A, H, wself) == 2 * concUnitW * A * H + 2 * soilUnitW * A * coverT + wself

\* the contact mode with "e <= B/6" weakened to "e < B/6"
ContactModeOf_strict(absM, N, B) ==
  IF 6 * absM < B * N THEN "full"
  ELSE IF 2 * absM < B * N THEN "partial"
  ELSE "none"

\* e <= B/6: full;  e < B/2: partial;  else none
ContactModeOf(absM, N, B) ==
  IF 6 * absM <= B * N THEN "full"
  ELSE IF 2 * absM < B * N THEN "partial"
  ELSE "none"

\* sigma_max of the three modes; first the variant whose full-contact
\* pressure is taken on the plan area A of the footing shape
SigmaMaxOf_planArea(mode, absM, N, B, D) ==
  IF mode = "full" THEN <<(<<N * B + 6 * absM, B * AreaOf(B, D)>>), (<<1, 1>>)>>
  ELSE IF mode = "partial" THEN <<(<<4 * N, 3 * D>>), (<<N, B * N - 2 * absM>>)>>
  ELSE <<(<<1, 0>>), (<<1, 0>>)>>

SigmaMaxOf(mode, absM, N, B, D) ==
  IF mode = "full" THEN <<(<<N * B + 6 * absM, B * B * D>>), (<<1, 1>>)>>
  ELSE IF mode = "partial" THEN <<(<<4 * N, 3 * D>>), (<<N, B * N - 2 * absM>>)>>
  ELSE <<(<<1, 0>>), (<<1, 0>>)>>

SigmaMinOf(mode, absM, N, B, D) ==
  IF mode = "full" THEN <<N * B - 6 * absM, B * B * D>> ELSE <<0, 1>>

\* noUplift = sigma_min >= 0, in full contact only
NoUpliftOf(mode, absM, N, B, D) ==
  IF mode = "full" THEN SigmaMinOf(mode, absM, N, B, D)[1] >= 0 ELSE FALSE

\* bearingOK = isFinite(sigma_max) ? sigma_max / 1000 <= qa_allow_final : false
BearingOKOf(mode, absM, N, B, D, qa) ==
  IF mode = "full"
  THEN FracLeq(N * B + 6 * absM, B * B * D, 40 * qa[1], qa[2])
  ELSE IF mode = "partial"
  THEN FracLeq(N, B * N - 2 * absM, 30 * qa[1] * D, qa[2] * N)
  ELSE FALSE

\* Pp = (z > 0 ? 0.5 Kp gammaN D z^2 : 0) * etaPassive
PpOf(D) ==
  IF embedDepth > 0
  THEN (PASSIVE_SOIL_Kp * soilUnitW * D * embedDepth * embedDepth * etaPassive) \div 10
  ELSE 0

\* FS_OT = (N max(B/2 - e, 0) + Pp z / 3) / max(|M|, 1e-9); first the variant
\* whose lever arm is |B/2 - e|
FS_OTOf_absArm(absM, N, B, D) ==
  <<3 * Abs(B * N - 2 * absM) + 2 * PpOf(D) * Max2(0, embedDepth), 6 * absM>>

FS_OTOf(absM, N, B, D) ==
  <<3 * Max2(B * N - 2 * absM, 0) + 2 * PpOf(D) * Max2(0, embedDepth), 6 * absM>>

\* fs >= req, for a quotient fs and req in 0.1
QuotGeq(fs, req) ==
  IF fs[2] = 0 THEN fs[1] > 0 ELSE FracLeq(req, 10, fs[1], fs[2])

\* OT_OK with the no-uplift requirement dropped
OverturnOK_ignoreUplift(fsOK, noUplift) == fsOK

\* OT_OK = allowUpliftOK ? FS_OT >= reqFS_OT : FS_OT >= reqFS_OT && noUplift
OverturnOK(fsOK, noUplift) ==
  IF allowUpliftOK THEN fsOK ELSE fsOK /\ noUplift

\* R_slide = mu N contactRatio + Pp
R_slideOf(mode, absM, N, B, D) ==
  IF mode = "full" THEN [int |-> PpOf(D), frac |-> <<mu * N, 10>>]
  ELSE IF mode = "partial"
  THEN [int |-> PpOf(D), frac |-> <<3 * mu * (B * N - 2 * absM), 20 * B>>]
  ELSE [int |-> PpOf(D), frac |-> <<0, 1>>]

\* SL_OK = R_slide / max(Fh, 1e-9) >= reqFS_SL
SlideOKOf(R, fh) ==
  IF reqFS_SL * fh - 10 * R.int <= 0 THEN TRUE
  ELSE FracLeq(reqFS_SL * fh - 10 * R.int, 10, R.frac[1], R.frac[2])

\* ok = bearingOK && OT_OK && SL_OK, for the vertical force N and its mode
OKOf(mode, absM, fh, qa, N, B, D) ==
  /\ BearingOKOf(mode, absM, N, B, D, qa)
  /\ OverturnOK(QuotGeq(FS_OTOf(absM, N, B, D), reqFS_OT), NoUpliftOf(mode, absM, N, B, D))
  /\ SlideOKOf(R_slideOf(mode, absM, N, B, D), fh)

\* r.ok of evalFoundation(B, D, H); c = <<|M|, Fh, Wself_perCol, qa_allow_final>>
FndOK(c, B, D, H) ==
  Bind(VerticalOf(AreaOf(B, D), H, c[3]),
       LAMBDA N : Bind(ContactModeOf(c[1], N, B),
                       LAMBDA mode : OKOf(mode, c[1], c[2], c[4], N, B, D)))

\* the record evalFoundation returns, with contactMode beside it
FndRecord(c, N, mode, B, D, H) ==
  [ok |-> OKOf(mode, c[1], c[2], c[4], N, B, D),
   N |-> N, e |-> <<c[1], N>>, contactMode |-> mode,
   sigma_max |-> SigmaMaxOf(mode, c[1], N, B, D),
   sigma_min |-> SigmaMinOf(mode, c[1], N, B, D),
   noUplift |-> NoUpliftOf(mode, c[1], N, B, D),
   qa_allow_final |-> c[4],
   bearingOK |-> BearingOKOf(mode, c[1], N, B, D, c[4]),
   FS_OT |-> FS_OTOf(c[1], N, B, D),
   OT_OK |-> OverturnOK(QuotGeq(FS_OTOf(c[1], N, B, D), reqFS_OT),
                        NoUpliftOf(mode, c[1], N, B, D)),
   R_slide |-> R_slideOf(mode, c[1], N, B, D), fh |-> c[2],
   SL_OK |-> SlideOKOf(R_slideOf(mode, c[1], N, B, D), c[2]),
   volume |-> AreaOf(B, D) * H, B |-> B, D |-> D, H |-> H,
   Pp |-> PpOf(D), z |-> Max2(0, embedDepth)]

evalFoundationAt(c, B, D, H) ==
  Bind(VerticalOf(AreaOf(B, D), H, c[3]),
       LAMBDA N : Bind(ContactModeOf(c[1], N, B),
                       LAMBDA mode : FndRecord(c, N, mode, B, D, H)))

\* what evalFoundation reads of the render: |M|, Fh, Wself_perCol, qa_allow_final
FndInputs == <<Abs(M), Fh, Wself_perCol, qa_allow_final>>

evalFoundation(B, D, H) ==
  Bind(FndInputs, LAMBDA c : evalFoundationAt(c, B, D, H))

\* fnd = signType === "freestanding" ? evalFoundation(footB, footD, footH) : null
fnd == evalFoundation(footB, footD, footH)

foundationOK == signType # "freestanding" \/ fnd.ok

(***************************************************************************)
(* Auto design, step 4: the footing search.                                *)
(* Both loops run "for (let x = x0; x <= 2.0; x += 0.05)".  In double      *)
(* arithmetic the accumulated value after the step to 1.95 is above 1.95,  *)
(* and the next one is above 2.0 (0.6 + 28 * 0.05 accumulates to           *)
(* 2.0000000000000013, 0.4 + 32 * 0.05 to 2.0000000000000013), so the last *)
(* value each loop visits is 1.95; toFixed(2) then gives the grid value.   *)
(* c = <<|M|, Fh, Wself_perCol, qa_allow_final>> of the render the handler *)
(* was created in.                                                         *)
(***************************************************************************)
\* first and last values of the B and D loops, and of the H loop, in 0.05 m
GRID_BD_FIRST == 12
GRID_BD_LAST == 39
GRID_H_FIRST == 8
GRID_H_LAST == 39

\* DEFAULT_FOOT = { B: 0.8, D: 0.8, H: 0.8 }
DEFAULT_FOOT == [B |-> 16, D |-> 16, H |-> 16]

\* score: r.volume (in u^3), or B * 100 + D * 10 + H (in 0.05)
ScoreOf(B, D, H) ==
  IF foundationOptMode = "VOL" THEN AreaOf(B, D) * H ELSE 100 * B + 10 * D + H

\* the loop body of the search for a passing footing
Visit(c, B, D, H, best) ==
  IF ~FndOK(c, B, D, H) THEN best
  ELSE IF ~best.found \/ ScoreOf(B, D, H) < best.score
  THEN [found |-> TRUE, score |-> ScoreOf(B, D, H), B |-> B, D |-> D, H |-> H]
  ELSE best

\* "for (let H = lo; H <= hi; H += 0.05)": lo..hi in order, as its first
\* half followed by its second half
RECURSIVE LoopH(_, _, _, _, _, _)
LoopH(c, B, D, lo, hi, best) ==
  IF lo = hi THEN Visit(c, B, D, lo, best)
  ELSE Bind(LoopH(c, B, D, lo, (lo + hi) \div 2, best),
            LAMBDA nb : LoopH(c, B, D, (lo + hi) \div 2 + 1, hi, nb))

RECURSIVE LoopD(_, _, _, _, _)
LoopD(c, B, lo, hi, best) ==
  IF lo = hi THEN LoopH(c, B, lo, GRID_H_FIRST, GRID_H_LAST, best)
  ELSE Bind(LoopD(c, B, lo, (lo + hi) \div 2, best),
            LAMBDA nb : LoopD(c, B, (lo + hi) \div 2 + 1, hi, nb))

RECURSIVE LoopB(_, _, _, _)
LoopB(c, lo, hi, best) ==
  IF lo = hi THEN LoopD(c, lo, GRID_BD_FIRST, GRID_BD_LAST, best)
  ELSE Bind(LoopB(c, lo, (lo + hi) \div 2, best),
            LAMBDA nb : LoopB(c, (lo + hi) \div 2 + 1, hi, nb))

\* bestB, bestD, bestH, bestScore and found before the loops: the default
\* footing, its B * D * H or B * 100 + D * 10 + H, and r0.ok
SearchSeed(c) ==
  [found |-> FndOK(c, DEFAULT_FOOT.B, DEFAULT_FOOT.D, DEFAULT_FOOT.H),
   score |-> IF foundationOptMode = "VOL"
             THEN DEFAULT_FOOT.B * DEFAULT_FOOT.D * DEFAULT_FOOT.H
             ELSE 100 * DEFAULT_FOOT.B + 10 * DEFAULT_FOOT.D + DEFAULT_FOOT.H,
   B |-> DEFAULT_FOOT.B, D |-> DEFAULT_FOOT.D, H |-> DEFAULT_FOOT.H]

\* the search for a passing footing
SearchPassing(c) ==
  Bind(SearchSeed(c), LAMBDA seed : LoopB(c, GRID_BD_FIRST, GRID_BD_LAST, seed))

(***************************************************************************)
(* Auto design, step 4, when no footing passes: the nearest footing.       *)
(* scoreNear = rateMin * 100000 - sizePenalty is carried at a resolution   *)
(* of 1/8000: a rate x is carried as <<ip, fp>> with ip = floor(x) and     *)
(* fp = floor(RATE_SCALE * (x - ip)), the penalty as 8000 * sizePenalty    *)
(* (an integer for both objectives).                                       *)
(***************************************************************************)
\* 100000 * 8000
RATE_SCALE == 8000 * 100000

\* a rate above every rate a finite quotient reaches (the 1e-9 floors)
RATE_HUGE == <<1000000, 0>>

\* x = (i + n / d) / D  as <<floor(x), floor(RATE_SCALE * frac(x))>>,
\* for i, n >= 0, 0 <= n < d, D > 0
QuantMixed(i, n, d, D) ==
  Bind(MulDivQR(i % D, RATE_SCALE, D),
       LAMBDA p : <<i \div D, p[1] + (p[2] + MulDiv(n, RATE_SCALE, d)) \div D>>)

\* 10 / req as a fraction in lowest terms (req in 0.1)
PerReq(req) == Rat(10, Max2(req, 1))

\* rateOT = r.FS_OT / Math.max(reqFS_OT, 1e-9), for FS_OT = fs
RateOT(fs) ==
  IF fs[2] = 0 THEN (IF fs[1] > 0 THEN RATE_HUGE ELSE <<0, 0>>)
  ELSE Bind(Rat(PerReq(reqFS_OT)[1], 2 * PerReq(reqFS_OT)[2]),
            LAMBDA k : Bind(MulDivQR(fs[1], k[1], k[2]),
                            LAMBDA x : QuantMixed(x[1], x[2], k[2], fs[2] \div 2)))

\* R / req for R = int + rem / fd, as <<whole, numerator, denominator>>
SlideOverReq(int, rem, fd, k) ==
  Bind(MulDivQR(int, k[1], k[2]),
       LAMBDA si : Bind(si[2] * fd + rem * k[1],
                        LAMBDA nn : <<si[1] + nn \div (fd * k[2]), nn % (fd * k[2]), fd * k[2]>>))

\* rateSL = r.FS_SL / Math.max(reqFS_SL, 1e-9),  FS_SL = R_slide / max(Fh, 1e-9)
RateSL(R, fh) ==
  IF fh = 0
  THEN (IF R.int > 0 \/ R.frac[1] > 0 THEN RATE_HUGE ELSE <<0, 0>>)
  ELSE Bind(SlideOverReq(R.int + R.frac[1] \div R.frac[2], R.frac[1] % R.frac[2],
                         R.frac[2], PerReq(reqFS_SL)),
            LAMBDA q : QuantMixed(q[1], q[2], q[3], fh))

\* rateBE = r.qa_allow_final * 1000 / Math.max(r.sigma_max, 1e-9)
RateBE(mode, absM, N, B, D, qa) ==
  IF mode = "full"
  THEN Bind(MulDivQR(B * B * D, 40 * qa[1], qa[2]),
            LAMBDA x : QuantMixed(x[1], x[2], qa[2], N * B + 6 * absM))
  ELSE IF mode = "partial"
  THEN Bind(MulDivQR(B * N - 2 * absM, 30 * qa[1] * D, qa[2] * N),
            LAMBDA x : QuantMixed(x[1], x[2], qa[2] * N, N))
  ELSE <<0, 0>>

RateLeq(x, y) == x[1] < y[1] \/ (x[1] = y[1] /\ x[2] <= y[2])

\* Math.min(a, b, be)
RateMin3(a, b, be) ==
  IF RateLeq(a, b)
  THEN (IF RateLeq(a, be) THEN a ELSE be)
  ELSE (IF RateLeq(b, be) THEN b ELSE be)

\* rateMin of a candidate; no rate is negative, so it is 0 where rateBE is
RateMin(mode, c, N, B, D) ==
  IF mode = "none" THEN <<0, 0>>
  ELSE Bind(<<RateOT(FS_OTOf(c[1], N, B, D)),
              RateSL(R_slideOf(mode, c[1], N, B, D), c[2]),
              RateBE(mode, c[1], N, B, D, c[4])>>,
            LAMBDA t : RateMin3(t[1], t[2], t[3]))

\* 8000 * sizePenalty:  B * D * H, or B * 100 + D * 10 + H
SizePenalty(B, D, H) ==
  IF foundationOptMode = "VOL" THEN B * D * H ELSE 400 * (100 * B + 10 * D + H)

\* scoreNear, as <<ip, fp - penalty>> for the value ip * RATE_SCALE + fp - penalty
ScoreNear(c, B, D, H) ==
  Bind(VerticalOf(AreaOf(B, D), H, c[3]),
       LAMBDA N : Bind(RateMin(ContactModeOf(c[1], N, B), c, N, B, D),
                       LAMBDA x : <<x[1], x[2] - SizePenalty(B, D, H)>>))

\* s > t
ScoreGreater(s, t) ==
  IF s[1] - t[1] >= 2 THEN TRUE
  ELSE IF s[1] - t[1] <= -2 THEN FALSE
  ELSE (s[1] - t[1]) * RATE_SCALE + (s[2] - t[2]) > 0

\* the loop body of the search for the nearest footing
VisitNear(c, B, D, H, best) ==
  Bind(ScoreNear(c, B, D, H),
       LAMBDA sc : IF ~best.found \/ ScoreGreater(sc, best.scoreNear)
                   THEN [found |-> TRUE, scoreNear |-> sc, B |-> B, D |-> D, H |-> H]
                   ELSE best)

RECURSIVE NearH(_, _, _, _, _, _)
NearH(c, B, D, lo, hi, best) ==
  IF lo = hi THEN VisitNear(c, B, D, lo, best)
  ELSE Bind(NearH(c, B, D, lo, (lo + hi) \div 2, best),
            LAMBDA nb : NearH(c, B, D, (lo + hi) \div 2 + 1, hi, nb))

RECURSIVE NearD(_, _, _, _, _)
NearD(c, B, lo, hi, best) ==
  IF lo = hi THEN NearH(c, B, lo, GRID_H_FIRST, GRID_H_LAST, best)
  ELSE Bind(NearD(c, B, lo, (lo + hi) \div 2, best),
            LAMBDA nb : NearD(c, B, (lo + hi) \div 2 + 1, hi, nb))

RECURSIVE NearB(_, _, _, _)
NearB(c, lo, hi, best) ==
  IF lo = hi THEN NearD(c, lo, GRID_BD_FIRST, GRID_BD_LAST, best)
  ELSE Bind(NearB(c, lo, (lo + hi) \div 2, best),
            LAMBDA nb : NearB(c, (lo + hi) \div 2 + 1, hi, nb))

\* bestNear: null before the first candidate, then the strict maximum so far
SearchNearest(c) ==
  NearB(c, GRID_BD_FIRST, GRID_BD_LAST,
        [found |-> FALSE, scoreNear |-> <<0, 0>>, B |-> 0, D |-> 0, H |-> 0])

(***************************************************************************)
(* The member check and the what-if series: the bending ratio of one       *)
(* column against the wind speed.  A ratio is an exact rational.           *)
(***************************************************************************)
\* sections.filter(s => s.family === family)
candidates == SelectSeq(sections, LAMBDA s : s.family = family)

\* Z_axis of active = candidates.find(s => s.name === sectionName) ||
\* candidates[0], in 0.01 cm3; 50 cm3 where there is no such section or the
\* section has no modulus
Z_axis ==
  Bind(candidates, LAMBDA c :
    IF Len(c) = 0 THEN 5000
    ELSE Bind(IF Find(c, sectionName) # 0 THEN c[Find(c, sectionName)] ELSE c[1],
              LAMBDA a : IF bendAxis = "x" THEN Coalesce(a.Zx, 5000)
                         ELSE Coalesce(a.Zy, 5000)))

\* (Mx / max(Z, 1e-12) / 1e6) / sigmaAllow(Fy) with sigmaAllow = 2/3 Fy, for a
\* moment Mx in 1/16 N x 0.05 m and a modulus Z in 0.01 cm3
EtaOf(Mx, Z) ==
  Bind(<<Mx, Z>>, LAMBDA p :
    IF p[2] > 0 THEN Rat(15 * p[1], 32 * Fy * p[2])
    ELSE RMul(RInt(p[1]), Rat(9375, 2 * Fy)))

\* etaColumn = sigma / sigma_allow of the main check
etaColumn == EtaOf(M, Z_axis)

\* windPressure(V, params) = 0.613 V^2 Kz Gf Iw Kd Kt, in 1/1000 N/m^2, the
\* five modifiers counting as 1.0 in the mode CF_INCLUDES_ALL
windPressure(V, params) ==
  LET eff(v) == IF params.cfMode = "CF_INCLUDES_ALL" THEN 10 ELSE v
  IN  Bind(<<613 * V * V,
             eff(params.windKz) * eff(params.windGf) * eff(params.windIw)
               * eff(params.windKd) * eff(params.windKt)>>, LAMBDA p :
        MulDiv(p[1], p[2], 100000))

\* the values the function of the useMemo of whatIf reads at a render
whatIfArgs ==
  [cfMode |-> cfMode, windKz |-> windKz, windGf |-> windGf, windIw |-> windIw,
   windKd |-> windKd, windKt |-> windKt, shapeCf |-> shapeCf,
   panelArea |-> width * height, signType |-> signType,
   Wself_total |-> Wself_total, cgHeight |-> cgHeight, Z_axis |-> Z_axis,
   nCol |-> nCol]

\* the dependency list of that useMemo, taken from the values c of a render:
\* [shapeCf, panelArea, signType, Wself_total, seismicC0, cgHeight, Z_axis,
\* sigma_allow, nCol]
whatIfDeps(c) ==
  <<c.shapeCf, c.panelArea, c.signType, c.Wself_total, seismicC0, c.cgHeight,
    c.Z_axis, Fy, c.nCol>>

\* the entry {V, eta} the loop of whatIf pushes for the speed V, from the
\* values c
whatIfEntry(c, V) ==
  Bind(Bind(<<windPressure(V, c) * c.shapeCf, c.panelArea>>, LAMBDA p :
         MulDiv(p[1], p[2], 62500)), LAMBDA FwV_total :
    Bind(IF c.signType = "freestanding"
         THEN Max2(FwV_total, (c.Wself_total * seismicC0) \div 10)
         ELSE FwV_total + (c.Wself_total * seismicC0) \div 10, LAMBDA FhV_total :
      Bind(FhV_total \div c.nCol, LAMBDA FhV :
        [V |-> V,
         eta |-> EtaOf(IF c.signType = "freestanding" THEN FhV * c.cgHeight
                       ELSE FhV * 16, c.Z_axis)])))

\* the array the function builds: for (V = 20; V <= 50; V += 2)
whatIfSeries(c) == [i \in 1..16 |-> whatIfEntry(c, 18 + 2 * i)]

\* whatIf: the series the useMemo returns, the one built at the render whose
\* values the memo holds
whatIf == whatIfSeries(whatIfMemo)

(***************************************************************************)
(* Initial state: the useState initial values, after the two mount effects *)
(* (anchor list / embedment, and z = H - 0.1) have run.                    *)
(***************************************************************************)
Init ==
  /\ signType = "freestanding"
  /\ anchors = DEFAULT_ANCHORS
  /\ anchor = initialABR
  /\ anchorQty = 4
  /\ anchorEmbed = initialABR.d * 20
  /\ plateT = 16
  /\ sections = DEFAULT_SECTIONS
  /\ family = DEFAULT_SECTIONS[1].family
  /\ sectionName = DEFAULT_SECTIONS[1].name
  /\ width = 30 /\ height = 20 /\ panelKg = 250 /\ shapeCf = 20 /\ cgHeight = 70
  /\ FhInput = 0
  /\ forceUnit = "N"
  /\ postQty = 1
  /\ hasInterPostConnection = TRUE
  /\ cfMode = "SHAPE_ONLY"
  /\ windKz = 10 /\ windGf = 10 /\ windIw = 10 /\ windKd = 10 /\ windKt = 10
  /\ footShape = "RECT"
  /\ footB = 16 /\ footD = 16 /\ footH = 16
  /\ embedDepth = 14
  /\ embedDepthAuto = TRUE
  /\ etaPassive = 5
  /\ soilQa = 150
  /\ reqFS_OT = 15 /\ reqFS_SL = 15
  /\ allowUpliftOK = FALSE
  /\ foundationOptMode = "BD"
  /\ lastOp = "init"
  /\ lastAlert = ""
  /\ call = [fn |-> "none"]
  /\ whatIfMemo = whatIfArgs

(***************************************************************************)
(* Effects                                                                 *)
(***************************************************************************)
\* useEffect [signType, anchors]: <<anchor, anchorEmbed>> after it has run on
\* sign type sig, catalog anchs, selected anchor anc and embedment emb
AnchorEffectOn(list, sig, anc, emb) ==
  IF Len(list) = 0 THEN <<anc, emb>>
  ELSE Bind(IF Find(list, anc.name) > 0 THEN list[Find(list, anc.name)] ELSE list[1],
            LAMBDA next : <<IF next.name # anc.name THEN next ELSE anc,
                            Max2(emb, minHef(sig, next))>>)

AnchorEffect(sig, anchs, anc, emb) ==
  AnchorEffectOn(IF sig = "freestanding" THEN ABR_ANCHORS ELSE anchs, sig, anc, emb)

\* useEffect [cfMode]: a modifier v after it has run in the given mode;
\* first the variant that leaves the value alone
CfModeEffect_keep(mode, v) == v

CfModeEffect(mode, v) == IF mode = "CF_INCLUDES_ALL" THEN 10 ELSE v

\* useEffect [footH, embedDepthAuto]: embedDepth after a handler that sets
\* footH to newH and embedDepth to z
EmbedDepthEffect(newH, z) ==
  IF newH # footH /\ embedDepthAuto THEN Max2(0, Max2(0, newH) - 2) ELSE z

\* a catalog entry that is JSON null
NULL_ROW == [null |-> TRUE]

\* the component is mounted, and its handlers can run, while no catalog entry
\* is null: rendering the options of a null entry throws, and React unmounts
\* the tree
Mounted ==
  /\ \A i \in 1..Len(anchors) : anchors[i] # NULL_ROW
  /\ \A i \in 1..Len(sections) : sections[i] # NULL_ROW

\* useMemo(..., deps) at the render that follows a handler: the series is
\* built again when an entry of the dependency list differs from the one the
\* memo holds, and is kept otherwise; a render that throws leaves nothing on
\* screen
WhatIfRender ==
  whatIfMemo' = IF Mounted' /\ whatIfDeps(whatIfArgs') # whatIfDeps(whatIfMemo)
                THEN whatIfArgs' ELSE whatIfMemo

(***************************************************************************)
(* Inputs of the handlers                                                  *)
(***************************************************************************)
SignTypes == {"freestanding", "projecting", "wall"}

\* largest anchor count typed into the quantity field
MaxAnchorQty == 6

\* embedment lengths typed into the hef field, mm
HefInputs == {0, 100, 700}

\* option names offered to the anchor select
AnchorNameInputs == {"M16 ABR", "M48 ABR", "M12 A-BOLT", "M24 A-BOLT", "M10 CHEM"}

\* a field of a catalog entry that should hold a string and does not
NotAString == "<not a string>"

\* entries of an anchor catalog file: two well-formed ones, one without a
\* finite d, and null
IMPORTED_ANCHORS ==
  << Anchor("M10 CHEM", 10, 9000, 4000, Undef, Undef, Undef),
     Anchor("M24 A-BOLT", 24, 51000, 20000, 36, 72, 120) >>

BAD_ANCHOR_ROW == Anchor("M99", Undef, 9000, 4000, Undef, Undef, Undef)

\* a parsed catalog file: whether it is a list, and its entries
CatalogFile(isArray, rows) == [isArray |-> isArray, rows |-> rows]

AnchorFileInputs ==
  { CatalogFile(FALSE, <<>>),
    CatalogFile(TRUE, <<>>),
    CatalogFile(TRUE, <<BAD_ANCHOR_ROW, NULL_ROW>>),
    CatalogFile(TRUE, IMPORTED_ANCHORS),
    CatalogFile(TRUE, <<NULL_ROW, IMPORTED_ANCHORS[1], BAD_ANCHOR_ROW, IMPORTED_ANCHORS[2]>>) }

\* entries of a section catalog file: one with all its moduli, one without,
\* and one whose family is not a string
IMPORTED_SECTIONS ==
  << SectionOf("P", "P-101.6x4.2", Undef, Undef, Undef, Undef),
     SectionOf("H", "H-250x125x6x9", 31700, 4700, 1040, 282),
     SectionOf("P", "P-60.5x3.2", 784, 784, 203, 203) >>

BAD_SECTION_ROW == SectionOf(NotAString, "X-1", 100, 100, 100, 100)

SectionFileInputs ==
  { CatalogFile(FALSE, <<>>),
    CatalogFile(TRUE, <<>>),
    CatalogFile(TRUE, <<NULL_ROW>>),
    CatalogFile(TRUE, IMPORTED_SECTIONS),
    CatalogFile(TRUE, <<BAD_SECTION_ROW, IMPORTED_SECTIONS[1], NULL_ROW, IMPORTED_SECTIONS[2]>>) }

\* the test of handleImportAnchors on an entry o
KeepAnchorRow(o) ==
  /\ o # NULL_ROW
  /\ o.name # NotAString
  /\ o.d # Undef
  /\ o.Ta # Undef
  /\ o.Va # Undef

\* the test of handleImportSections on an entry o
KeepSectionRow(o) ==
  /\ o # NULL_ROW
  /\ o.family # NotAString
  /\ o.name # NotAString

(***************************************************************************)
(* Handlers of the anchor panel                                            *)
(***************************************************************************)
\* onClick of the three sign-type buttons, and the effect that follows
SetSignType ==
  \E t \in SignTypes :
    /\ Mounted
    /\ t # signType
    /\ signType' = t
    /\ \E r \in {AnchorEffect(t, anchors, anchor, anchorEmbed)} :
         /\ anchor' = r[1]
         /\ anchorEmbed' = r[2]
    /\ lastOp' = "SetSignType"
    /\ lastAlert' = ""
    /\ UNCHANGED <<anchors, anchorQty, memberVars, loadVars, footVars, soilVars, call>>
    /\ WhatIfRender

\* onChange of the anchor select
SelectAnchor ==
  \E n \in AnchorNameInputs :
    /\ Mounted
    /\ Find(anchorsForUI, n) > 0
    /\ anchor' = anchorsForUI[Find(anchorsForUI, n)]
    /\ anchorEmbed' = Max2(anchorEmbed, minHef(signType, anchorsForUI[Find(anchorsForUI, n)]))
    /\ lastOp' = "SelectAnchor"
    /\ lastAlert' = ""
    /\ UNCHANGED <<signType, anchors, anchorQty, memberVars, loadVars, footVars, soilVars, call>>
    /\ WhatIfRender

\* onChange of the quantity field: setAnchorQty(Number(e.target.value))
SetAnchorQty ==
  \E q \in 0..MaxAnchorQty :
    /\ Mounted
    /\ anchorQty' = q
    /\ lastOp' = "SetAnchorQty"
    /\ lastAlert' = ""
    /\ UNCHANGED <<signType, anchors, anchor, anchorEmbed, memberVars, loadVars,
                   footVars, soilVars, call>>
    /\ WhatIfRender

\* onChange of the hef field
EnterHef ==
  \E v \in HefInputs :
    /\ Mounted
    /\ anchorEmbed' = Max2(IF signType = "freestanding" THEN anchor.d * 20 ELSE anchor.d * 6, v)
    /\ lastOp' = "EnterHef"
    /\ lastAlert' = ""
    /\ UNCHANGED <<signType, anchors, anchor, anchorQty, memberVars, loadVars,
                   footVars, soilVars, call>>
    /\ WhatIfRender

\* handleImportAnchors on the parsed file f, and the effect that follows
ImportAnchorsOf(f) ==
  /\ Mounted
  /\ \E rows \in {IF f.isArray THEN SelectSeq(f.rows, KeepAnchorRow) ELSE <<>>} :
       IF ~f.isArray \/ Len(rows) = 0
       THEN /\ lastAlert' = "import error"
            /\ UNCHANGED <<anchors, anchor, anchorEmbed>>
       ELSE /\ anchors' = rows
            /\ \E r \in {IF signType # "freestanding"
                         THEN AnchorEffect(signType, rows, rows[1],
                                           OrElse(rows[1].hefRec, rows[1].d * 10))
                         ELSE AnchorEffect(signType, rows, anchor, anchorEmbed)} :
                 /\ anchor' = r[1]
                 /\ anchorEmbed' = r[2]
            /\ lastAlert' = "anchor catalog"
  /\ lastOp' = "ImportAnchors"
  /\ UNCHANGED <<signType, anchorQty, memberVars, loadVars, footVars, soilVars, call>>
  /\ WhatIfRender

ImportAnchors == \E f \in AnchorFileInputs : ImportAnchorsOf(f)

\* handleImportSections on the parsed file f
ImportSectionsOf(f) ==
  /\ Mounted
  /\ \E rows \in {IF f.isArray THEN SelectSeq(f.rows, KeepSectionRow) ELSE <<>>} :
       IF ~f.isArray \/ Len(rows) = 0
       THEN /\ lastAlert' = "import error"
            /\ UNCHANGED <<sections, family, sectionName>>
       ELSE /\ sections' = rows
            /\ family' = rows[1].family
            /\ sectionName' = rows[1].name
            /\ lastAlert' = "section catalog"
  /\ lastOp' = "ImportSections"
  /\ UNCHANGED <<anchorVars, plateT, loadVars, footVars, soilVars, call>>
  /\ WhatIfRender

ImportSections == \E f \in SectionFileInputs : ImportSectionsOf(f)

\* onClick of the defaults button; the z effect runs when footH changes
ResetDefaults ==
  /\ Mounted
  /\ width' = 24 /\ height' = 12 /\ panelKg' = 80 /\ cgHeight' = 70 /\ shapeCf' = 15
  /\ family' = sections[1].family
  /\ sectionName' = sections[1].name
  /\ postQty' = 1
  /\ hasInterPostConnection' = TRUE
  /\ anchor' = (IF signType = "freestanding" THEN initialABR ELSE DEFAULT_ANCHORS[2])
  /\ anchorQty' = 4
  /\ anchorEmbed' = minHef(signType, IF signType = "freestanding" THEN initialABR
                                     ELSE DEFAULT_ANCHORS[2])
  /\ soilQa' = 150
  /\ footB' = 16 /\ footD' = 16 /\ footH' = 16
  /\ embedDepth' = EmbedDepthEffect(16, 12)
  /\ plateT' = 16
  /\ reqFS_OT' = 15 /\ reqFS_SL' = 15
  /\ FhInput' = 0
  /\ lastOp' = "ResetDefaults"
  /\ lastAlert' = ""
  /\ UNCHANGED <<signType, anchors, sections, forceUnit, windVars, footShape,
                 embedDepthAuto, etaPassive, allowUpliftOK, foundationOptMode, call>>
  /\ WhatIfRender

(***************************************************************************)
(* Handlers of the foundation and load panels                              *)
(***************************************************************************)
\* footing sizes typed into the B, D and H fields, 0.05 m
FootBInputs == {10, 16, 30, 40}
\* the largest footing width compared, 0.05 m
MaxB == 40
FootDInputs == {8, 16, 40}
FootHInputs == {8, 20, 40}
\* embedment depths typed into the z field, 0.05 m
EmbedDepthInputs == {0, 12}
\* horizontal forces typed into the Fh field, N
FhInputs == {0 - 100, 0, 2695, 8085, 20000}

\* onChange of the B field
SetFootB ==
  \E v \in FootBInputs :
    /\ Mounted
    /\ footB' = v
    /\ lastOp' = "SetFootB"
    /\ lastAlert' = ""
    /\ UNCHANGED <<anchorVars, memberVars, loadVars, footShape, footD, footH,
                   embedDepth, embedDepthAuto, soilVars, call>>
    /\ WhatIfRender

\* onChange of the D field
SetFootD ==
  \E v \in FootDInputs :
    /\ Mounted
    /\ footD' = v
    /\ lastOp' = "SetFootD"
    /\ lastAlert' = ""
    /\ UNCHANGED <<anchorVars, memberVars, loadVars, footShape, footB, footH,
                   embedDepth, embedDepthAuto, soilVars, call>>
    /\ WhatIfRender

\* onChange of the H field, and the z effect
SetFootH ==
  \E v \in FootHInputs :
    /\ Mounted
    /\ footH' = v
    /\ embedDepth' = EmbedDepthEffect(v, embedDepth)
    /\ lastOp' = "SetFootH"
    /\ lastAlert' = ""
    /\ UNCHANGED <<anchorVars, memberVars, loadVars, footShape, footB, footD,
                   embedDepthAuto, soilVars, call>>
    /\ WhatIfRender

\* onChange of the z field: automatic following goes off
SetEmbedDepth ==
  \E v \in EmbedDepthInputs :
    /\ Mounted
    /\ embedDepthAuto' = FALSE
    /\ embedDepth' = v
    /\ lastOp' = "SetEmbedDepth"
    /\ lastAlert' = ""
    /\ UNCHANGED <<anchorVars, memberVars, loadVars, footShape, footB, footD, footH,
                   soilVars, call>>
    /\ WhatIfRender

\* onChange of the footing-shape select
SetFootShape ==
  \E v \in {"RECT", "L"} :
    /\ Mounted
    /\ footShape' = v
    /\ lastOp' = "SetFootShape"
    /\ lastAlert' = ""
    /\ UNCHANGED <<anchorVars, memberVars, loadVars, footB, footD, footH,
                   embedDepth, embedDepthAuto, soilVars, call>>
    /\ WhatIfRender

\* onChange of the uplift checkbox
SetAllowUpliftOK ==
  \E v \in BOOLEAN :
    /\ Mounted
    /\ allowUpliftOK' = v
    /\ lastOp' = "SetAllowUpliftOK"
    /\ lastAlert' = ""
    /\ UNCHANGED <<anchorVars, memberVars, loadVars, footVars, etaPassive, soilQa,
                   reqFS_OT, reqFS_SL, foundationOptMode, call>>
    /\ WhatIfRender

\* onChange of the objective select
SetFoundationOptMode ==
  \E v \in {"BD", "VOL"} :
    /\ Mounted
    /\ foundationOptMode' = v
    /\ lastOp' = "SetFoundationOptMode"
    /\ lastAlert' = ""
    /\ UNCHANGED <<anchorVars, memberVars, loadVars, footVars, etaPassive, soilQa,
                   reqFS_OT, reqFS_SL, allowUpliftOK, call>>
    /\ WhatIfRender

\* onChange of the Fh field
SetFhInput ==
  \E v \in FhInputs :
    /\ Mounted
    /\ FhInput' = v
    /\ lastOp' = "SetFhInput"
    /\ lastAlert' = ""
    /\ UNCHANGED <<anchorVars, memberVars, width, height, panelKg, shapeCf, cgHeight,
                   colVars, windVars, footVars, soilVars, call>>
    /\ WhatIfRender

\* centre-of-gravity heights typed into the height field, 0.05 m
CgHeightInputs == {200}

\* onChange of the centre-of-gravity height field
SetCgHeight ==
  \E v \in CgHeightInputs :
    /\ Mounted
    /\ cgHeight' = v
    /\ lastOp' = "SetCgHeight"
    /\ lastAlert' = ""
    /\ UNCHANGED <<anchorVars, memberVars, width, height, panelKg, shapeCf, FhInput,
                   colVars, windVars, footVars, soilVars, call>>
    /\ WhatIfRender

\* onChange of the force-unit select
SetForceUnit ==
  \E u \in {"N", "kgf"} :
    /\ Mounted
    /\ forceUnit' = u
    /\ lastOp' = "SetForceUnit"
    /\ lastAlert' = ""
    /\ UNCHANGED <<anchorVars, memberVars, width, height, panelKg, shapeCf, cgHeight,
                   FhInput, postQty, hasInterPostConnection, windVars, footVars,
                   soilVars, call>>
    /\ WhatIfRender

\* column counts typed into the postQty field
PostQtyInputs == {0, 2, 3}

\* onChange of the postQty field: setPostQty(Math.max(1, Math.floor(v)))
SetPostQty ==
  \E v \in PostQtyInputs :
    /\ Mounted
    /\ postQty' = Max2(1, v)
    /\ lastOp' = "SetPostQty"
    /\ lastAlert' = ""
    /\ UNCHANGED <<anchorVars, memberVars, width, height, panelKg, shapeCf, cgHeight,
                   FhInput, forceUnit, hasInterPostConnection, windVars, footVars,
                   soilVars, call>>
    /\ WhatIfRender

\* onChange of the inter-column connection checkbox
SetHasInterPostConnection ==
  \E v \in BOOLEAN :
    /\ Mounted
    /\ hasInterPostConnection' = v
    /\ lastOp' = "SetHasInterPostConnection"
    /\ lastAlert' = ""
    /\ UNCHANGED <<anchorVars, memberVars, width, height, panelKg, shapeCf, cgHeight,
                   FhInput, forceUnit, postQty, windVars, footVars, soilVars, call>>
    /\ WhatIfRender

\* onChange of the Cf-mode select, and the effect that follows
SetCfMode ==
  \E mode \in {"SHAPE_ONLY", "CF_INCLUDES_ALL"} :
    /\ Mounted
    /\ mode # cfMode
    /\ cfMode' = mode
    /\ windKz' = CfModeEffect(mode, windKz)
    /\ windGf' = CfModeEffect(mode, windGf)
    /\ windIw' = CfModeEffect(mode, windIw)
    /\ windKd' = CfModeEffect(mode, windKd)
    /\ windKt' = CfModeEffect(mode, windKt)
    /\ lastOp' = "SetCfMode"
    /\ lastAlert' = ""
    /\ UNCHANGED <<anchorVars, memberVars, width, height, panelKg, shapeCf, cgHeight,
                   FhInput, colVars, footVars, soilVars, call>>
    /\ WhatIfRender

\* values typed into the five modifier fields, 0.1
ModifierInputs == {8, 10, 13}

\* onChange of the Kz field, rendered in the mode SHAPE_ONLY only
SetWindKz ==
  \E v \in ModifierInputs :
    /\ Mounted
    /\ cfMode = "SHAPE_ONLY"
    /\ windKz' = v
    /\ lastOp' = "SetWindKz"
    /\ lastAlert' = ""
    /\ UNCHANGED <<anchorVars, memberVars, width, height, panelKg, shapeCf, cgHeight,
                   FhInput, colVars, cfMode, windGf, windIw, windKd, windKt, footVars,
                   soilVars, call>>
    /\ WhatIfRender

\* onChange of the Gf field
SetWindGf ==
  \E v \in ModifierInputs :
    /\ Mounted
    /\ cfMode = "SHAPE_ONLY"
    /\ windGf' = v
    /\ lastOp' = "SetWindGf"
    /\ lastAlert' = ""
    /\ UNCHANGED <<anchorVars, memberVars, width, height, panelKg, shapeCf, cgHeight,
                   FhInput, colVars, cfMode, windKz, windIw, windKd, windKt, footVars,
                   soilVars, call>>
    /\ WhatIfRender

\* onChange of the Iw field
SetWindIw ==
  \E v \in ModifierInputs :
    /\ Mounted
    /\ cfMode = "SHAPE_ONLY"
    /\ windIw' = v
    /\ lastOp' = "SetWindIw"
    /\ lastAlert' = ""
    /\ UNCHANGED <<anchorVars, memberVars, width, height, panelKg, shapeCf, cgHeight,
                   FhInput, colVars, cfMode, windKz, windGf, windKd, windKt, footVars,
                   soilVars, call>>
    /\ WhatIfRender

\* onChange of the Kd field
SetWindKd ==
  \E v \in ModifierInputs :
    /\ Mounted
    /\ cfMode = "SHAPE_ONLY"
    /\ windKd' = v
    /\ lastOp' = "SetWindKd"
    /\ lastAlert' = ""
    /\ UNCHANGED <<anchorVars, memberVars, width, height, panelKg, shapeCf, cgHeight,
                   FhInput, colVars, cfMode, windKz, windGf, windIw, windKt, footVars,
                   soilVars, call>>
    /\ WhatIfRender

\* onChange of the Kt field
SetWindKt ==
  \E v \in ModifierInputs :
    /\ Mounted
    /\ cfMode = "SHAPE_ONLY"
    /\ windKt' = v
    /\ lastOp' = "SetWindKt"
    /\ lastAlert' = ""
    /\ UNCHANGED <<anchorVars, memberVars, width, height, panelKg, shapeCf, cgHeight,
                   FhInput, colVars, cfMode, windKz, windGf, windIw, windKd, footVars,
                   soilVars, call>>
    /\ WhatIfRender

\* onChange of the plate-thickness select, whose options are PLATE_T_OPTIONS
SetPlateT ==
  \E i \in 1..Len(PLATE_T_OPTIONS) :
    /\ Mounted
    /\ plateT' = PLATE_T_OPTIONS[i]
    /\ lastOp' = "SetPlateT"
    /\ lastAlert' = ""
    /\ UNCHANGED <<anchorVars, sectionName, sections, family, loadVars, footVars,
                   soilVars, call>>
    /\ WhatIfRender

(***************************************************************************)
(* handleAIAutoCalc                                                        *)
(***************************************************************************)
\* the key of the two sorts: Ta of an anchor, the modulus about the bending
\* axis of a section
SortKey(e) ==
  IF "Ta" \in DOMAIN e THEN e.Ta
  ELSE IF bendAxis = "x" THEN Coalesce(e.Zx, 0) ELSE Coalesce(e.Zy, 0)

\* [...list].sort((a, b) => key(a) - key(b)): e goes behind the entries whose
\* key is not above its own
RECURSIVE InsertByKey(_, _)
InsertByKey(sorted, e) ==
  IF Len(sorted) = 0 THEN <<e>>
  ELSE IF SortKey(sorted[Len(sorted)]) <= SortKey(e) THEN Append(sorted, e)
  ELSE Append(InsertByKey(SubSeq(sorted, 1, Len(sorted) - 1), e), sorted[Len(sorted)])

RECURSIVE SortByKey(_)
SortByKey(list) ==
  IF Len(list) = 0 THEN <<>>
  ELSE InsertByKey(SortByKey(SubSeq(list, 1, Len(list) - 1)), list[Len(list)])

\* step 1: the first section, by ascending modulus, that fits; else the last
RECURSIVE ScanSections(_, _)
ScanSections(sorted, i) ==
  IF i >= Len(sorted) THEN sorted[Len(sorted)]
  ELSE IF SectionFits(sorted[i]) THEN sorted[i]
  ELSE ScanSections(sorted, i + 1)

\* sections.filter(s => s.family === family)
sameFamily == SelectSeq(sections, LAMBDA s : s.family = family)

pickedSection ==
  IF Len(sameFamily) = 0 THEN sections[1]
  ELSE ScanSections(SortByKey(sameFamily), 1)

\* step 2: V_c = Fh / ANCHOR_CALC_QTY_FIXED, in N; first the variant that
\* divides by the largest quantity candidate, 10
V_c_largestQty == Rat(Fh, 16 * 10)

V_c == Rat(Fh, 16 * ANCHOR_CALC_QTY_FIXED)

\* etaA < 1 for candidate ac, with its own hef_try; first the variant that
\* leaves the shear term out
AnchorCandidateFits_noShear(ac, tmax) ==
  /\ EdgeSpacingOK(ac)
  /\ EtaBelowOne(tmax, Min2(ac.Ta, Ta_concOf(minHef(signType, ac))), RInt(0), ac.Va)

AnchorCandidateFits(ac, tmax) ==
  /\ EdgeSpacingOK(ac)
  /\ EtaBelowOne(tmax, Min2(ac.Ta, Ta_concOf(minHef(signType, ac))), V_c, ac.Va)

RECURSIVE ScanAnchors(_, _, _)
\* <<bestAnchor, bestQty, bestEmbed>>
ScanAnchors(sorted, i, tmax) ==
  IF i > Len(sorted) THEN <<anchor, anchorQty, anchorEmbed>>
  ELSE IF AnchorCandidateFits(sorted[i], tmax)
  THEN <<sorted[i], 4, minHef(signType, sorted[i])>>
  ELSE ScanAnchors(sorted, i + 1, tmax)

bestAnchorPick ==
  Bind(Tmax, LAMBDA tmax : ScanAnchors(SortByKey(anchorsForUI), 1, tmax))

\* step 3: adoptT = snapPlateT(t_req_calc + 2)
adoptT == snapPlateT(t_req + 20)

\* step 4: the footing adopted, and whether it is the nearest (non-passing) one
FootingSearch(c) ==
  Bind(SearchPassing(c),
       LAMBDA p : IF p.found THEN [B |-> p.B, D |-> p.D, H |-> p.H, nearest |-> FALSE]
                  ELSE Bind(SearchNearest(c),
                            LAMBDA n : [B |-> n.B, D |-> n.D, H |-> n.H, nearest |-> TRUE]))

\* step 4 runs for a free-standing sign only; first the variant that runs it
\* for every sign
RunsFootingStep_always == TRUE

RunsFootingStep == signType = "freestanding"

\* the handler, and the z effect that follows a change of footH
AutoCalc ==
  /\ Mounted
  /\ sectionName' = pickedSection.name
  /\ \E b \in {bestAnchorPick} :
       /\ anchor' = b[1]
       /\ anchorQty' = b[2]
       /\ anchorEmbed' = Max2(b[3], minHef(signType, b[1]))
  /\ plateT' = adoptT
  /\ IF RunsFootingStep
     THEN \E f \in {Bind(FndInputs, LAMBDA c : FootingSearch(c))} :
            /\ footB' = f.B
            /\ footD' = f.D
            /\ footH' = f.H
            /\ embedDepth' = EmbedDepthEffect(f.H, embedDepth)
            /\ lastAlert' = (IF f.nearest THEN "nearest footing" ELSE "done")
     ELSE /\ UNCHANGED <<footB, footD, footH, embedDepth>>
          /\ lastAlert' = "done"
  /\ lastOp' = "AutoCalc"
  /\ UNCHANGED <<signType, anchors, sections, family, loadVars, footShape,
                 embedDepthAuto, soilVars, call>>
  /\ WhatIfRender

(***************************************************************************)
(* Configuration import: applyConfig(cfg) and the effects that follow.     *)
(* A snapshot is a record of the fields applyConfig reads; cfg.has is the  *)
(* set of those the file carries with a value of the right type.           *)
(***************************************************************************)
EmptyConfig ==
  [has |-> {}, allowUpliftOK |-> FALSE, foundationOptMode |-> "", forceUnit |-> "",
   signType |-> "", width |-> 0, height |-> 0, panelKg |-> 0, cgHeight |-> 0,
   shapeCf |-> 0, sections |-> <<>>, family |-> "", sectionName |-> "",
   postQty |-> 0, hasInterPostConnection |-> FALSE,
   anchors |-> <<>>, anchorName |-> "", anchorQty |-> 0,
   plateT |-> 0, soilQa |-> 0, footB |-> 0, footD |-> 0, footH |-> 0,
   embedDepth |-> 0, etaPassive |-> 0, reqFS_OT |-> 0, reqFS_SL |-> 0,
   anchorEmbed |-> 0, FhInput |-> 0]

\* a snapshot with the given anchor fields; "", <<>> and Undef leave one out
AnchorConfig(st, cat, n, emb) ==
  [EmptyConfig EXCEPT
     !.has = (IF st = "" THEN {} ELSE {"signType"})
             \cup (IF cat = <<>> THEN {} ELSE {"anchors"})
             \cup (IF n = "" THEN {} ELSE {"anchorName"})
             \cup (IF emb = Undef THEN {} ELSE {"anchorEmbed"}),
     !.signType = st, !.anchors = cat, !.anchorName = n,
     !.anchorEmbed = IF emb = Undef THEN 0 ELSE emb]

\* a snapshot of the member, load and footing fields
MemberConfig ==
  [EmptyConfig EXCEPT
     !.has = {"allowUpliftOK", "foundationOptMode", "width", "height", "panelKg",
              "cgHeight", "shapeCf", "sectionName", "anchorQty", "plateT", "soilQa",
              "footB", "footD", "footH", "embedDepth", "etaPassive", "reqFS_OT",
              "reqFS_SL", "FhInput"},
     !.allowUpliftOK = TRUE, !.foundationOptMode = "VOL", !.width = 24,
     !.height = 12, !.panelKg = 80, !.cgHeight = 60, !.shapeCf = 15,
     !.sectionName = DEFAULT_SECTIONS[2].name, !.anchorQty = 6, !.plateT = 20,
     !.soilQa = 100, !.footB = 20, !.footD = 20, !.footH = 20, !.embedDepth = 10,
     !.etaPassive = 12, !.reqFS_OT = 12, !.reqFS_SL = 12, !.FhInput = 2695]

\* a snapshot for a wall sign whose anchor catalog holds a null entry
MalformedConfig ==
  [EmptyConfig EXCEPT
     !.has = {"width", "signType", "anchors", "anchorName", "anchorQty", "plateT",
              "footB"},
     !.width = 24, !.signType = "wall", !.anchors = <<NULL_ROW>>,
     !.anchorName = "M12 A-BOLT", !.anchorQty = 6, !.plateT = 25, !.footB = 20]

\* embedment values of the snapshots, mm
ConfigEmbedInputs == {Undef, 100, 1000}

\* anchor names of the snapshots
ConfigNameInputs == {"", "M48 ABR", "M12 A-BOLT"}

ConfigInputs ==
  {AnchorConfig(st, cat, n, emb) :
     st \in SignTypes \cup {""}, cat \in {<<>>, IMPORTED_ANCHORS},
     n \in ConfigNameInputs, emb \in ConfigEmbedInputs}
  \cup {MemberConfig, MalformedConfig}

\* plate thicknesses of the snapshots, mm
ConfigPlateTInputs == {0 - 5, 0, 17, 20, 36, 99}

\* snapshots that carry a plate thickness, alone or for a wall sign
PlateConfigInputs ==
  {[EmptyConfig EXCEPT !.has = {"plateT"} \cup (IF st = "" THEN {} ELSE {"signType"}),
                       !.plateT = t, !.signType = st] :
     t \in ConfigPlateTInputs, st \in {"", "wall"}}

\* snapshots of a wall or projecting sign under a manual horizontal force
DesignConfigInputs ==
  {[EmptyConfig EXCEPT !.has = {"signType", "FhInput"}, !.signType = st, !.FhInput = f] :
     st \in {"wall", "projecting"}, f \in {0, 2695, 8085, 20000}}

\* snapshots of a small free-standing sign (1.2 m by 0.6 m, 80 kg, Cf 1.5)
\* at a height of 1.5 m, with uplift allowed or not
SmallSignConfigInputs ==
  {[EmptyConfig EXCEPT
      !.has = {"allowUpliftOK", "width", "height", "panelKg", "cgHeight", "shapeCf"},
      !.allowUpliftOK = up, !.width = 12, !.height = 6, !.panelKg = 80,
      !.cgHeight = cg, !.shapeCf = 15] :
     up \in BOOLEAN, cg \in {30}}

\* footing sizes of the snapshots, 0.05 m
ConfigFootInputs == {0 - 4, 0, 20}

\* snapshots that carry one footing field only
FootingConfigInputs ==
  {[EmptyConfig EXCEPT !.has = {"footB"}, !.footB = v] : v \in ConfigFootInputs}
  \cup {[EmptyConfig EXCEPT !.has = {"footD"}, !.footD = v] : v \in ConfigFootInputs}
  \cup {[EmptyConfig EXCEPT !.has = {"footH"}, !.footH = v] : v \in ConfigFootInputs}
  \cup {[EmptyConfig EXCEPT !.has = {"embedDepth"}, !.embedDepth = v] :
          v \in ConfigFootInputs}

\* signTypeFromCfg
SignTypeFromCfg(cfg) == IF "signType" \in cfg.has THEN cfg.signType ELSE signType

\* the list the anchor name is looked up in
ConfigPickList(cfg) ==
  IF SignTypeFromCfg(cfg) = "freestanding" THEN ABR_ANCHORS
  ELSE IF "anchors" \in cfg.has THEN cfg.anchors
  ELSE anchors

\* list.find(a => a.name === cfg.anchorName) reads the name of a null entry:
\* the TypeError leaves applyConfig at the anchorName block
ConfigAborts(cfg) ==
  /\ "anchorName" \in cfg.has
  /\ \E i \in 1..Len(ConfigPickList(cfg)) : ConfigPickList(cfg)[i] = NULL_ROW

\* <<anchor, anchorEmbed>> set by the anchorName block
ConfigPick(cfg, list) ==
  IF "anchorName" \in cfg.has /\ Len(list) > 0
  THEN Bind(IF Find(list, cfg.anchorName) > 0 THEN list[Find(list, cfg.anchorName)]
            ELSE list[1],
            LAMBDA pick : <<pick, minHef(SignTypeFromCfg(cfg), pick)>>)
  ELSE <<anchor, anchorEmbed>>

\* <<anchor, anchorEmbed>> set by applyConfig: the anchorEmbed block comes
\* last and clamps against the anchor of the render applyConfig was created in
ConfigAnchor(cfg) ==
  Bind(ConfigPick(cfg, ConfigPickList(cfg)),
       LAMBDA ae : IF "anchorEmbed" \in cfg.has
                   THEN <<ae[1], Max2(minHef(SignTypeFromCfg(cfg), anchor), cfg.anchorEmbed)>>
                   ELSE ae)

\* <<anchor, anchorEmbed>> once the effect [signType, anchors] has run, if it does
ConfigAnchorSettled(cfg) ==
  Bind(ConfigAnchor(cfg),
       LAMBDA ae : IF SignTypeFromCfg(cfg) # signType \/ "anchors" \in cfg.has
                   THEN AnchorEffect(SignTypeFromCfg(cfg),
                                     IF "anchors" \in cfg.has THEN cfg.anchors ELSE anchors,
                                     ae[1], ae[2])
                   ELSE ae)

\* cfg.key when the snapshot carries it, else the current value
CfgGet(cfg, key, cur) == IF key \in cfg.has THEN cfg[key] ELSE cur

\* setPlateT(cfg.plateT) without the snap
ConfigPlateT_raw(cfg) == CfgGet(cfg, "plateT", plateT)

\* if (num(cfg.plateT)) setPlateT(snapPlateT(cfg.plateT))
ConfigPlateT(cfg) ==
  IF "plateT" \in cfg.has THEN snapPlateT(10 * cfg.plateT) ELSE plateT

\* handleImportConfig on the snapshot cfg: applyConfig inside try / catch,
\* the alert, and the effects of the render that follows
ApplyConfig(cfg) ==
  /\ Mounted
  /\ allowUpliftOK' = CfgGet(cfg, "allowUpliftOK", allowUpliftOK)
  /\ foundationOptMode' = CfgGet(cfg, "foundationOptMode", foundationOptMode)
  /\ forceUnit' = CfgGet(cfg, "forceUnit", forceUnit)
  /\ signType' = SignTypeFromCfg(cfg)
  /\ width' = CfgGet(cfg, "width", width)
  /\ height' = CfgGet(cfg, "height", height)
  /\ panelKg' = CfgGet(cfg, "panelKg", panelKg)
  /\ cgHeight' = CfgGet(cfg, "cgHeight", cgHeight)
  /\ shapeCf' = CfgGet(cfg, "shapeCf", shapeCf)
  /\ sections' = CfgGet(cfg, "sections", sections)
  /\ family' = CfgGet(cfg, "family", family)
  /\ sectionName' = CfgGet(cfg, "sectionName", sectionName)
  /\ postQty' = (IF "postQty" \in cfg.has THEN Max2(1, cfg.postQty) ELSE postQty)
  /\ hasInterPostConnection' =
       CfgGet(cfg, "hasInterPostConnection", hasInterPostConnection)
  /\ anchors' = CfgGet(cfg, "anchors", anchors)
  /\ IF ConfigAborts(cfg)
     THEN /\ UNCHANGED <<anchor, anchorEmbed, anchorQty, plateT, soilQa, footB, footD,
                         footH, embedDepth, etaPassive, reqFS_OT, reqFS_SL, FhInput>>
          /\ lastAlert' = "config error"
     ELSE /\ \E ae \in {ConfigAnchorSettled(cfg)} :
               /\ anchor' = ae[1]
               /\ anchorEmbed' = ae[2]
          /\ anchorQty' = CfgGet(cfg, "anchorQty", anchorQty)
          /\ plateT' = ConfigPlateT(cfg)
          /\ soilQa' = CfgGet(cfg, "soilQa", soilQa)
          /\ footB' = CfgGet(cfg, "footB", footB)
          /\ footD' = CfgGet(cfg, "footD", footD)
          /\ footH' = CfgGet(cfg, "footH", footH)
          /\ embedDepth' = EmbedDepthEffect(CfgGet(cfg, "footH", footH),
                                            CfgGet(cfg, "embedDepth", embedDepth))
          /\ etaPassive' = (IF "etaPassive" \in cfg.has
                            THEN Min2(Max2(cfg.etaPassive, 1), 10) ELSE etaPassive)
          /\ reqFS_OT' = CfgGet(cfg, "reqFS_OT", reqFS_OT)
          /\ reqFS_SL' = CfgGet(cfg, "reqFS_SL", reqFS_SL)
          /\ FhInput' = CfgGet(cfg, "FhInput", FhInput)
          /\ lastAlert' = "config loaded"
  /\ lastOp' = "ImportConfig"
  /\ UNCHANGED <<windVars, footShape, embedDepthAuto, call>>
  /\ WhatIfRender

\* import of a snapshot of the anchor, member and load fields
ImportConfig == \E cfg \in ConfigInputs : ApplyConfig(cfg)

\* import of a snapshot that carries a plate thickness
ImportPlateConfig == \E cfg \in PlateConfigInputs : ApplyConfig(cfg)

\* import of a snapshot of a wall or projecting sign
ImportDesignConfig == \E cfg \in DesignConfigInputs : ApplyConfig(cfg)

\* import of a snapshot of a small free-standing sign
ImportSmallSignConfig == \E cfg \in SmallSignConfigInputs : ApplyConfig(cfg)

\* import of a snapshot that carries a footing size
ImportFootingConfig == \E cfg \in FootingConfigInputs : ApplyConfig(cfg)

\* buildConfig: the snapshot of the current state.  JSON.stringify and
\* JSON.parse give back every finite number, string, boolean and list as it
\* was and drop the undefined fields of a catalog entry, which read as
\* undefined again.
buildConfig ==
  [has |-> {"allowUpliftOK", "foundationOptMode", "forceUnit", "signType", "width",
            "height", "panelKg", "cgHeight", "shapeCf", "sections", "family",
            "sectionName", "postQty", "hasInterPostConnection", "anchors",
            "anchorName", "anchorQty", "plateT", "soilQa", "footB", "footD", "footH",
            "embedDepth", "etaPassive", "reqFS_OT", "reqFS_SL", "anchorEmbed",
            "FhInput"},
   allowUpliftOK |-> allowUpliftOK, foundationOptMode |-> foundationOptMode,
   forceUnit |-> forceUnit, signType |-> signType, width |-> width,
   height |-> height, panelKg |-> panelKg, cgHeight |-> cgHeight,
   shapeCf |-> shapeCf, sections |-> sections, family |-> family,
   sectionName |-> sectionName, postQty |-> postQty,
   hasInterPostConnection |-> hasInterPostConnection, anchors |-> anchors,
   anchorName |-> anchor.name, anchorQty |-> anchorQty, plateT |-> plateT,
   soilQa |-> soilQa, footB |-> footB, footD |-> footD, footH |-> footH,
   embedDepth |-> embedDepth, etaPassive |-> etaPassive, reqFS_OT |-> reqFS_OT,
   reqFS_SL |-> reqFS_SL, anchorEmbed |-> anchorEmbed, FhInput |-> FhInput]

\* the inputs the load derivation and the checkers read
CheckInputs ==
  <<anchorVars, memberVars, loadVars, footShape, footB, footD, footH, embedDepth,
    etaPassive, soilQa, reqFS_OT, reqFS_SL, allowUpliftOK>>

\* handleExportConfig: the file written, with the inputs it was taken from
ExportConfig ==
  /\ Mounted
  /\ call.fn = "none"
  /\ call' = [fn |-> "buildConfig", out |-> buildConfig, at |-> CheckInputs]
  /\ lastOp' = "ExportConfig"
  /\ lastAlert' = ""
  /\ UNCHANGED <<anchorVars, memberVars, loadVars, footVars, soilVars>>
  /\ WhatIfRender

\* import of the snapshot exported before
ImportExportedConfig ==
  /\ call.fn = "buildConfig"
  /\ ApplyConfig(call.out)

(***************************************************************************)
(* Applications of the pure functions to inputs of their own               *)
(***************************************************************************)
\* largest requested plate thickness, 0.1 mm
MaxTReq10 == 400
\* largest moment, N m
MaxM == 12
\* gauges and pitches, mm
GaugeInputs == {0, 100, 200, 250}
PitchInputs == {0, 160, 300}

CallSnapPlateT ==
  \E t \in (0 - 20)..MaxTReq10 :
    /\ call.fn = "none"
    /\ call' = [fn |-> "snapPlateT", tReq10 |-> t, out |-> snapPlateT(t)]
    /\ lastOp' = "CallSnapPlateT"
    /\ UNCHANGED <<anchorVars, memberVars, loadVars, footVars, soilVars, lastAlert>>
    /\ UNCHANGED whatIfMemo

\* the contact step of evalFoundation(B, D, H) under the moment that puts
\* the eccentricity at B / 6 (rounded down) or one unit above it: the mode,
\* sigma_max, and the value of the partial-contact expression
CallContactPressure ==
  \E B \in 1..MaxB, D \in FootDInputs, H \in FootHInputs, over \in {0, 1} :
    /\ call.fn = "none"
    /\ \E N \in {VerticalOf(AreaOf(B, D), H, Wself_perCol)} :
         \E absM \in {(B * N) \div 6 + over} :
           call' = [fn |-> "evalFoundation", footShape |-> footShape, B |-> B,
                    D |-> D, H |-> H, N |-> N, absM |-> absM,
                    contactMode |-> ContactModeOf(absM, N, B),
                    sigma_max |-> SigmaMaxOf(ContactModeOf(absM, N, B), absM, N, B, D),
                    partial |-> SigmaMaxOf("partial", absM, N, B, D)]
    /\ lastOp' = "CallContactPressure"
    /\ UNCHANGED <<anchorVars, memberVars, loadVars, footVars, soilVars, lastAlert>>
    /\ UNCHANGED whatIfMemo

CallComputeAnchorTensions ==
  \E m \in (0 - MaxM)..MaxM, g \in GaugeInputs, pch \in PitchInputs :
    /\ call.fn = "none"
    /\ call' = [fn |-> "computeAnchorTensions", M |-> m, anchorGauge |-> g,
                anchorPitch |-> pch, out |-> computeAnchorTensions(RInt(m), g, pch),
                Tmax |-> TmaxOf(computeAnchorTensions(RInt(m), g, pch).list)]
    /\ lastOp' = "CallComputeAnchorTensions"
    /\ UNCHANGED <<anchorVars, memberVars, loadVars, footVars, soilVars, lastAlert>>
    /\ UNCHANGED whatIfMemo

(***************************************************************************)
(* Specifications                                                          *)
(***************************************************************************)
\* the pure functions alone
NextFn == CallSnapPlateT \/ CallComputeAnchorTensions
SpecFn == Init /\ [][NextFn]_vars

\* the anchor panel
NextAnchor ==
  \/ SetSignType
  \/ SelectAnchor
  \/ EnterHef
  \/ ImportAnchors
  \/ ResetDefaults

\* the anchor panel with the quantity field
NextUI == NextAnchor \/ SetAnchorQty
SpecUI == Init /\ [][NextUI]_vars

\* the anchor panel with configuration import
NextConfig == NextAnchor \/ ImportConfig
SpecConfig == Init /\ [][NextConfig]_vars

\* the foundation panel
NextFnd ==
  \/ SetFootB
  \/ SetFootD
  \/ SetFootH
  \/ SetEmbedDepth
  \/ SetFootShape
  \/ SetAllowUpliftOK
  \/ SetFhInput
SpecFnd == Init /\ [][NextFnd]_vars

\* auto design under the two objectives, for the three sign types
NextOpt ==
  \/ AutoCalc
  \/ SetFoundationOptMode
  \/ SetSignType
SpecOpt == Init /\ [][NextOpt]_vars

\* auto design with a high centre of gravity, for the three sign types
NextRescue ==
  \/ AutoCalc
  \/ SetCgHeight
  \/ SetSignType
SpecRescue == Init /\ [][NextRescue]_vars

\* the plate thickness: select, snapshots, defaults and auto design
NextPlate ==
  \/ SetPlateT
  \/ ImportPlateConfig
  \/ ResetDefaults
  \/ AutoCalc
SpecPlate == Init /\ [][NextPlate]_vars

\* the load panel: sign type, entered force, unit and columns
NextLoad ==
  \/ SetSignType
  \/ SetFhInput
  \/ SetForceUnit
  \/ SetPostQty
  \/ SetHasInterPostConnection
SpecLoad == Init /\ [][NextLoad]_vars

\* the wind panel: Cf mode and the five modifiers
NextWind ==
  \/ SetCfMode
  \/ SetWindKz
  \/ SetWindGf
  \/ SetWindIw
  \/ SetWindKd
  \/ SetWindKt
SpecWind == Init /\ [][NextWind]_vars

\* the footing sizes: fields, snapshots and defaults
NextFooting ==
  \/ SetFootB
  \/ SetFootD
  \/ SetFootH
  \/ SetEmbedDepth
  \/ ImportFootingConfig
  \/ ResetDefaults
SpecFooting == Init /\ [][NextFooting]_vars

\* export of a snapshot, edits of the footing, and import of the snapshot
NextRoundTrip ==
  \/ ExportConfig
  \/ ImportExportedConfig
  \/ SetFootShape
  \/ SetFootH
  \/ SetEmbedDepth
SpecRoundTrip == Init /\ [][NextRoundTrip]_vars

\* the two catalogs: imports, sign type, anchor select and defaults
NextCatalog ==
  \/ ImportAnchors
  \/ ImportSections
  \/ SetSignType
  \/ SelectAnchor
  \/ ResetDefaults
SpecCatalog == Init /\ [][NextCatalog]_vars

\* the section step of the auto design: catalogs, sign types and loads
NextSection ==
  \/ ImportSections
  \/ ImportDesignConfig
  \/ AutoCalc
SpecSection == Init /\ [][NextSection]_vars

\* the anchor step of the auto design: catalogs, sign types and loads
NextAnchorDesign ==
  \/ ImportAnchors
  \/ ImportDesignConfig
  \/ AutoCalc
SpecAnchorDesign == Init /\ [][NextAnchorDesign]_vars

\* evalFoundation over the widths: depth, thickness, embedment, shape, load
NextWidth ==
  \/ SetFootD
  \/ SetFootH
  \/ SetEmbedDepth
  \/ SetFootShape
  \/ SetFhInput
SpecWidth == Init /\ [][NextWidth]_vars

\* the contact pressures at the full/partial boundary, for both shapes
NextContact ==
  \/ SetFootShape
  \/ CallContactPressure
SpecContact == Init /\ [][NextContact]_vars

\* the footing step of the auto design on small free-standing signs, and
\* snapshots of wall and projecting signs
NextAdopt ==
  \/ ImportSmallSignConfig
  \/ ImportDesignConfig
  \/ AutoCalc
SpecAdopt == Init /\ [][NextAdopt]_vars

\* the what-if chart: the wind mode, the first and the last modifier, the sign
\* type and the manual force
NextWhatIf ==
  \/ SetCfMode
  \/ SetWindKz
  \/ SetWindKt
  \/ SetSignType
  \/ SetFhInput
SpecWhatIf == Init /\ [][NextWhatIf]_vars

\* every handler
Next ==
  \/ NextAnchor
  \/ SetAnchorQty
  \/ ImportConfig
  \/ ImportPlateConfig
  \/ ImportFootingConfig
  \/ ImportDesignConfig
  \/ ImportSmallSignConfig
  \/ ExportConfig
  \/ ImportExportedConfig
  \/ ImportSections
  \/ SetPlateT
  \/ NextWind
  \/ SetForceUnit
  \/ SetPostQty
  \/ SetHasInterPostConnection
  \/ NextFnd
  \/ SetFoundationOptMode
  \/ SetCgHeight
  \/ AutoCalc
  \/ NextFn
  \/ CallContactPressure
Spec == Init /\ [][Next]_vars

(***************************************************************************)
(* Properties of the pure functions (SpecFn)                               *)
(***************************************************************************)
\* C10: snapPlateT returns, for a requested thickness of at most 36 mm, the
\* smallest thickness of the stock list 16, 19, 22, 25, 28, 32, 36 that is
\* not below the request, and 36 for every larger request.
C10_SnapSmallestStock ==
  call.fn = "snapPlateT" =>
    IF call.tReq10 <= 360
    THEN /\ call.out \in {16, 19, 22, 25, 28, 32, 36}
         /\ 10 * call.out >= call.tReq10
         /\ \A t \in {16, 19, 22, 25, 28, 32, 36} : 10 * t >= call.tReq10 => call.out <= t
    ELSE call.out = 36

\* a request that is exactly a stock thickness has been snapped to itself
C10_Witness == call.fn = "snapPlateT" /\ call.tReq10 = 190 /\ call.out = 19

\* C8: for every moment and every gauge > 0 and pitch > 0, the four tensions
\* of computeAnchorTensions reproduce the moment: the sum of y_i T_i (y in m)
\* equals M.
C8_MomentConsistent ==
  (call.fn = "computeAnchorTensions" /\ call.anchorGauge > 0 /\ call.anchorPitch > 0) =>
    LET yT(i) == RMul(RDiv(call.out.list[i].y, RInt(1000)), call.out.list[i].T)
    IN  RAdd(RAdd(yT(1), yT(2)), RAdd(yT(3), yT(4))) = RInt(call.M)

\* a negative moment on a 250 x 300 group: the upper anchors carry 2 M
C8_Witness ==
  /\ call.fn = "computeAnchorTensions"
  /\ call.anchorGauge = 250 /\ call.anchorPitch = 300 /\ call.M = 0 - 7
  /\ call.out.list[1].T = <<0 - 14, 1>>

\* C9 as stated: for gauge 200 mm, pitch 160 mm and M >= 0 the sum of squared
\* offsets is 0.02 m^2 and the largest tension is 5 M.
C9_SumY2IsFiftiethAndTmaxFiveM ==
  (call.fn = "computeAnchorTensions" /\ call.anchorGauge = 200 /\ call.anchorPitch = 160
     /\ call.M >= 0) =>
    /\ call.out.sumY2 = <<1, 50>>
    /\ call.Tmax = RInt(5 * call.M)

\* C9 as the code has it: for gauge 200 mm, pitch 160 mm and M >= 0 the sum
\* of squared offsets over the four anchors is 0.04 m^2 and the largest
\* tension is 2.5 M.
C9_SumY2IsTwentyFifthAndTmaxHalfFiveM ==
  (call.fn = "computeAnchorTensions" /\ call.anchorGauge = 200 /\ call.anchorPitch = 160
     /\ call.M >= 0) =>
    /\ call.out.sumY2 = <<1, 25>>
    /\ call.Tmax = Rat(5 * call.M, 2)

\* M = 4 N m on the 200 x 160 group: the largest tension is 10 N
C9_Witness ==
  /\ call.fn = "computeAnchorTensions"
  /\ call.anchorGauge = 200 /\ call.anchorPitch = 160 /\ call.M = 4
  /\ call.Tmax = <<10, 1>>

(***************************************************************************)
(* Properties of the anchor panel (SpecUI, SpecConfig)                     *)
(***************************************************************************)
\* C1: in every settled state the accepted anchor embedment is at least the
\* required minimum of the selected anchor: 20 d on a free-standing sign,
\* otherwise the recommended embedment of the anchor, or 10 d when the
\* catalog gives none.
C1_EmbedAtLeastRequired ==
  anchorEmbed >= (IF signType = "freestanding" THEN 20 * anchor.d
                  ELSE IF anchor.hefRec \in {Undef, 0} THEN 10 * anchor.d
                  ELSE anchor.hefRec)

\* C2: after a configuration import and the effects that follow it, the
\* accepted embedment is at least the required minimum of the anchor and the
\* sign type that are then in force, whatever the snapshot carries.
C2_ImportKeepsEmbedAtLeastRequired ==
  lastOp = "ImportConfig" =>
    anchorEmbed >= (IF signType = "freestanding" THEN 20 * anchor.d
                    ELSE IF anchor.hefRec \in {Undef, 0} THEN 10 * anchor.d
                    ELSE anchor.hefRec)

\* C7: the selected anchor quantity has no influence on the anchor demand:
\* after the quantity is set, the shear per anchor of the main check and of
\* the auto design is the horizontal force per column divided by 4, and the
\* largest tension is what it was before.
C7_QuantityHasNoInfluence ==
  [][lastOp' = "SetAnchorQty" =>
       /\ V_anchor' = Rat(Fh', 16 * 4)
       /\ V_c' = Rat(Fh', 16 * 4)
       /\ Tmax' = Tmax]_vars

(***************************************************************************)
(* Properties of evalFoundation (SpecFnd)                                  *)
(***************************************************************************)
\* C5: evalFoundation selects the contact mode by the eccentricity e = |M| / N
\* alone: full iff e <= B / 6, partial iff B / 6 < e < B / 2, none iff
\* e >= B / 2; in mode none the largest pressure is infinite and the bearing
\* check and the overall result fail.
C5_ContactModeByEccentricity ==
  LET r == fnd
      absM == r.e[1]
      BN == r.B * r.e[2]
  IN  /\ r.contactMode \in {"full", "partial", "none"}
      /\ r.contactMode = "full" <=> 6 * absM <= BN
      /\ r.contactMode = "partial" <=> (BN < 6 * absM /\ 2 * absM < BN)
      /\ r.contactMode = "none" <=> 2 * absM >= BN
      /\ r.contactMode = "none" =>
           /\ r.sigma_max[1][2] = 0 /\ r.sigma_max[1][1] > 0
           /\ ~r.bearingOK
           /\ ~r.ok

\* e = B / 2 exactly, with uplift allowed: mode none and an overall fail
C5_Witness ==
  /\ 2 * fnd.e[1] = footB * fnd.e[2]
  /\ fnd.contactMode = "none"
  /\ allowUpliftOK
  /\ ~fnd.ok

\* C6: the overturning check passes iff FS_OT >= required and (uplift is
\* allowed or the contact is full with no uplift); so with uplift not allowed
\* no partial or none contact passes overall, and with uplift allowed the
\* verdict is FS_OT >= required whatever the contact mode.
C6_OverturnVerdict ==
  LET r == fnd
      fsOK == IF r.FS_OT[2] = 0 THEN r.FS_OT[1] > 0
              ELSE FracLeq(reqFS_OT, 10, r.FS_OT[1], r.FS_OT[2])
  IN  /\ r.OT_OK <=> (fsOK /\ (allowUpliftOK \/ (r.contactMode = "full" /\ r.noUplift)))
      /\ (~allowUpliftOK /\ r.contactMode \in {"partial", "none"}) => ~r.ok
      /\ allowUpliftOK => (r.OT_OK <=> fsOK)

\* partial contact with FS_OT >= required and uplift not allowed: the
\* overturning check fails
C6_Witness ==
  /\ ~allowUpliftOK
  /\ fnd.contactMode = "partial"
  /\ QuotGeq(fnd.FS_OT, reqFS_OT)
  /\ ~fnd.OT_OK

(***************************************************************************)
(* Properties of the footing search (SpecOpt, SpecRescue)                  *)
(***************************************************************************)
\* C3: after an auto design on a free-standing sign for which a candidate of
\* the grid B, D in 0.60..2.00, H in 0.40..2.00 (step 0.05) passes, the
\* adopted footing is a passing candidate with the smallest objective, and
\* among those the first in the order ascending B, then D, then H.
C3_AdoptsFirstSmallestPassing ==
  [][(lastOp' = "AutoCalc" /\ signType = "freestanding") =>
       \A c \in {FndInputs} :
         \A P \in {{g \in (12..40) \X (12..40) \X (8..40) : FndOK(c, g[1], g[2], g[3])}} :
           P # {} =>
             /\ <<footB', footD', footH'>> \in P
             /\ \A g \in P :
                  \/ ScoreOf(footB', footD', footH') < ScoreOf(g[1], g[2], g[3])
                  \/ /\ ScoreOf(footB', footD', footH') = ScoreOf(g[1], g[2], g[3])
                     /\ \/ footB' < g[1]
                        \/ footB' = g[1] /\ footD' < g[2]
                        \/ footB' = g[1] /\ footD' = g[2] /\ footH' <= g[3]]_vars

\* C4: when no candidate of that grid passes, the auto design raises no
\* error, adopts a candidate that maximises the nearest-footing score over
\* the whole grid, and reports a best-effort result.
C4_AdoptsBestEffortMaximiser ==
  [][(lastOp' = "AutoCalc" /\ signType = "freestanding") =>
       \A c \in {FndInputs} :
         (\A g \in (12..40) \X (12..40) \X (8..40) : ~FndOK(c, g[1], g[2], g[3])) =>
           /\ lastAlert' = "nearest footing"
           /\ \A s \in {ScoreNear(c, footB', footD', footH')} :
                \A g \in (12..40) \X (12..40) \X (8..40) :
                  ~ScoreGreater(ScoreNear(c, g[1], g[2], g[3]), s)]_vars

(***************************************************************************)
(* The adopted plate thickness (SpecPlate)                                 *)
(***************************************************************************)
\* C11: in every reachable state the adopted base-plate thickness is one of
\* the stock thicknesses 16, 19, 22, 25, 28, 32, 36, whatever sequence of
\* selections, snapshot imports with any numeric plateT, resets to defaults
\* and auto-design runs led to it.
C11_PlateTInStock == plateT \in {16, 19, 22, 25, 28, 32, 36}

\* a snapshot import has snapped a thickness that is not in stock
C11_Witness == lastOp = "ImportConfig" /\ plateT = 19

(***************************************************************************)
(* The design loads (SpecLoad)                                             *)
(***************************************************************************)
\* C12: the per-column moment is the per-column horizontal force times the
\* centre-of-gravity height for a free-standing sign, times 0.8 m for a wall
\* sign and times 0.1 m for a projecting sign.
C12_MomentArm ==
  M = Fh * (IF signType = "freestanding" THEN cgHeight
            ELSE IF signType = "wall" THEN 16
            ELSE 2)

\* C13: the total design horizontal force is the entered force, converted to
\* newtons, whenever the entry is above 0; otherwise it is the automatic
\* value: the larger of wind force and self-weight times seismic coefficient
\* for a free-standing sign, their sum for a projecting or wall sign.
C13_TotalForce ==
  LET seismic == (Wself_total * seismicC0) \div 10
      entered == IF forceUnit = "kgf" THEN (16 * FhInput * G) \div 10 ELSE 16 * FhInput
  IN  Fh_total = IF FhInput > 0 THEN entered
                 ELSE IF signType = "freestanding" THEN Max2(Fw_total, seismic)
                 ELSE Fw_total + seismic

\* 2695 kgf have been entered: the design force is 2695 * 9.8 N
C13_Witness ==
  /\ forceUnit = "kgf"
  /\ FhInput = 2695
  /\ Fh_total = 16 * 26411

\* C14: the per-column horizontal force and the per-column self-weight are
\* the totals divided by n, where n is 1 whenever the inter-column connection
\* flag is off, whatever the column count, and the column count (at least 1)
\* when the flag is on.
C14_PerColumnShare ==
  LET n == IF hasInterPostConnection THEN Max2(1, postQty) ELSE 1
  IN  /\ Fh = Fh_total \div n
      /\ Wself_perCol = Wself_total \div n
      /\ ~hasInterPostConnection => Fh = Fh_total /\ Wself_perCol = Wself_total

\* three columns without connection: each carries the whole force
C14_Witness ==
  /\ ~hasInterPostConnection
  /\ postQty = 3
  /\ Fh = Fh_total
  /\ Fh_total > 0

(***************************************************************************)
(* The wind modifiers (SpecWind)                                           *)
(***************************************************************************)
\* C15: whenever the Cf mode is "coefficients folded into the shape factor",
\* the five modifiers are 1.0 and the design pressure is the basic pressure
\* q0; and a switch back to the independent-modifier mode leaves the five
\* at 1.0, so no value entered before the switch comes back.
C15_FoldedModeResetsModifiers ==
  /\ [](cfMode = "CF_INCLUDES_ALL" =>
          /\ windKz = 10 /\ windGf = 10 /\ windIw = 10 /\ windKd = 10 /\ windKt = 10
          /\ qz = q0)
  /\ [][cfMode = "CF_INCLUDES_ALL" /\ cfMode' = "SHAPE_ONLY" =>
          windKz' = 10 /\ windGf' = 10 /\ windIw' = 10 /\ windKd' = 10 /\ windKt' = 10]_vars

\* the mode has just been switched back to the independent modifiers
C15_Witness ==
  /\ lastOp = "SetCfMode"
  /\ cfMode = "SHAPE_ONLY"
  /\ windKz = 10 /\ windGf = 10 /\ windIw = 10 /\ windKd = 10 /\ windKt = 10
  /\ qz = q0

(***************************************************************************)
(* The footing sizes (SpecFooting)                                         *)
(***************************************************************************)
\* C16: in every reachable state the footing width B, depth D, thickness H
\* and the embedment depth z are all strictly positive, whatever sequence of
\* edits of these fields, snapshot imports and resets to defaults led to it.
C16_FootingPositive == footB > 0 /\ footD > 0 /\ footH > 0 /\ embedDepth > 0

(***************************************************************************)
(* Export and import of a snapshot (SpecRoundTrip)                         *)
(***************************************************************************)
\* C17: the snapshot round-trips: once the snapshot exported from a state s
\* has been imported into any other state and the effects have run, every
\* input the load derivation and the checkers read has the value it had in
\* s.
C17_SnapshotRoundTrips ==
  (lastOp = "ImportConfig" /\ call.fn = "buildConfig") => CheckInputs = call.at

(***************************************************************************)
(* Import of a snapshot with a malformed catalog (SpecConfig)              *)
(***************************************************************************)
\* C18: an import of any snapshot object never aborts part-way: it reports
\* success, and every field of the snapshot with a valid value is applied,
\* also when a catalog list of the snapshot holds a malformed entry.
C18_ImportAppliesEveryValidField ==
  [][\A cfg \in ConfigInputs :
       ApplyConfig(cfg) =>
         /\ lastAlert' = "config loaded"
         /\ "width" \in cfg.has => width' = cfg.width
         /\ "anchorQty" \in cfg.has => anchorQty' = cfg.anchorQty
         /\ "plateT" \in cfg.has => plateT' = snapPlateT(10 * cfg.plateT)
         /\ "footB" \in cfg.has => footB' = cfg.footB]_vars

(***************************************************************************)
(* Import of a catalog (SpecCatalog)                                       *)
(***************************************************************************)
\* C19: the import of a section or anchor catalog that is not a list, is
\* empty, or holds an entry that is not well-formed is rejected: the loaded
\* catalog, the selected section or anchor and the embedment stay as they
\* were, and an error is reported.
C19_MalformedCatalogRejected ==
  [][/\ \A f \in AnchorFileInputs :
          (/\ ImportAnchorsOf(f)
           /\ \/ ~f.isArray
              \/ Len(f.rows) = 0
              \/ \E i \in 1..Len(f.rows) : ~KeepAnchorRow(f.rows[i]))
          => /\ UNCHANGED <<anchors, anchor, anchorEmbed>>
             /\ lastAlert' = "import error"
     /\ \A f \in SectionFileInputs :
          (/\ ImportSectionsOf(f)
           /\ \/ ~f.isArray
              \/ Len(f.rows) = 0
              \/ \E i \in 1..Len(f.rows) : ~KeepSectionRow(f.rows[i]))
          => /\ UNCHANGED <<sections, family, sectionName>>
             /\ lastAlert' = "import error"]_vars

(***************************************************************************)
(* The selected anchor and the catalogs (SpecConfig)                       *)
(***************************************************************************)
\* C20: in every settled state the selected anchor is an entry, by its name,
\* of the catalog of the current sign type: the regulated ABR catalog for a
\* free-standing sign, the loaded general catalog for the other two.
C20_AnchorInApplicableCatalog ==
  Mounted =>
    Find(IF signType = "freestanding" THEN ABR_ANCHORS ELSE anchors, anchor.name) > 0

(***************************************************************************)
(* The auto design (SpecSection)                                           *)
(***************************************************************************)
\* C21: after an auto design the selected section is, among the sections of
\* the current family, one of smallest modulus about the bending axis among
\* those with bending ratio < 1 and slenderness <= 200, and, when no section
\* of the family has both, one of largest modulus in the family.
C21_SmallestFittingSection ==
  (lastOp = "AutoCalc" /\ Len(sameFamily) > 0) =>
    LET fits == {i \in 1..Len(sameFamily) : SectionFits(sameFamily[i])}
    IN  \E i \in 1..Len(sameFamily) :
          /\ sameFamily[i].name = sectionName
          /\ IF fits # {}
             THEN /\ i \in fits
                  /\ \A j \in fits : Z_cand(sameFamily[i]) <= Z_cand(sameFamily[j])
             ELSE \A j \in 1..Len(sameFamily) :
                    Z_cand(sameFamily[i]) >= Z_cand(sameFamily[j])

C21_Witness ==
  /\ lastOp = "AutoCalc"
  /\ sections = DEFAULT_SECTIONS
  /\ sectionName = "H-150x150x7x10"

C23_FootingOnlyWhenFreestanding ==
  [][(lastOp' = "AutoCalc" /\ signType # "freestanding") =>
       UNCHANGED <<footB, footD, footH, embedDepth>>]_vars

C23_Witness ==
  /\ lastOp = "AutoCalc"
  /\ signType = "wall"
  /\ anchor.name = "M12 A-BOLT"
  /\ footB = 16 /\ footD = 16 /\ footH = 16 /\ embedDepth = 14

(***************************************************************************)
(* Properties of evalFoundation (SpecWidth)                                *)
(***************************************************************************)
\* C24: with D, H, z, the footing shape and every load and material input as
\* they are, the overturning factor of safety evalFoundation returns does not
\* decrease with the footing width: B1 <= B2 implies FS_OT(B1) <= FS_OT(B2).
C24_OverturnFactorMonotoneInB ==
  Bind({<<B, evalFoundation(B, footD, footH).FS_OT>> : B \in 1..MaxB},
       LAMBDA fs :
         \A p1, p2 \in fs :
           p1[1] <= p2[1] =>
             IF p1[2][2] = 0 \/ p2[2][2] = 0
             THEN p1[2][2] = p2[2][2] /\ p1[2][1] <= p2[2][1]
             ELSE FracLeq(p1[2][1], p1[2][2], p2[2][1], p2[2][2]))

\* an L-shaped footing with z = 0.6 m under a moment: the factor of width
\* 1.5 m is above the one of width 0.8 m, and the narrowest width has no
\* lever arm left
C24_Witness ==
  /\ footShape = "L"
  /\ embedDepth = 12
  /\ fnd.FS_OT[2] > 0
  /\ FracLess(evalFoundation(16, footD, footH).FS_OT[1], fnd.FS_OT[2],
              evalFoundation(30, footD, footH).FS_OT[1], fnd.FS_OT[2])
  /\ evalFoundation(1, footD, footH).FS_OT[1] = 2 * PpOf(footD) * embedDepth

(***************************************************************************)
(* The contact pressures (SpecFnd)                                         *)
(***************************************************************************)
\* C25: in full contact the largest and smallest contact pressures are
\* (N / A) (1 + 6 e / B) and (N / A) (1 - 6 e / B), A being the plan area the
\* vertical load N is computed with: B D for the rectangle and
\* B t1 + D t2 - t1 t2 for the L-shaped band.
C25_FullContactPressureOnPlanArea ==
  LET r == fnd
      absM == r.e[1]
      A == AreaOf(r.B, r.D)
  IN  r.contactMode = "full" =>
        /\ r.N = VerticalOf(A, r.H, Wself_perCol)
        /\ r.sigma_max[2] = <<1, 1>>
        /\ Rat(r.sigma_max[1][1], r.sigma_max[1][2]) = Rat(r.N * r.B + 6 * absM, A * r.B)
        /\ Rat(r.sigma_min[1], r.sigma_min[2]) = Rat(r.N * r.B - 6 * absM, A * r.B)

\* a rectangular footing in full contact under a moment
C25_Witness ==
  /\ footShape = "RECT"
  /\ fnd.contactMode = "full"
  /\ fnd.e[1] > 0
  /\ lastOp = "SetFootB"

(***************************************************************************)
(* The full/partial boundary (SpecContact)                                 *)
(***************************************************************************)
\* C26: at an eccentricity of exactly B / 6 the contact is full and the
\* largest pressure equals the value 2 N / (b_eff D), b_eff = 3 (B / 2 - e),
\* of the partial-contact expression at that eccentricity, for every geometry
\* and both footing shapes.
C26_NoJumpAtContactBoundary ==
  (call.fn = "evalFoundation" /\ 6 * call.absM = call.B * call.N) =>
    /\ call.contactMode = "full"
    /\ call.partial[1][2] # 0 /\ call.partial[2][2] # 0
    /\ RMul(Rat(call.sigma_max[1][1], call.sigma_max[1][2]),
            Rat(call.sigma_max[2][1], call.sigma_max[2][2]))
         = RMul(Rat(call.partial[1][1], call.partial[1][2]),
                Rat(call.partial[2][1], call.partial[2][2]))
    /\ RMul(Rat(call.partial[1][1], call.partial[1][2]),
            Rat(call.partial[2][1], call.partial[2][2]))
         = Rat(2 * call.N, call.B * call.D)

\* an L-shaped footing of 1.5 m by 0.8 m by 1.0 m at e = B / 6
C26_Witness ==
  /\ call.fn = "evalFoundation"
  /\ call.footShape = "L"
  /\ call.B = 30 /\ call.D = 16 /\ call.H = 20
  /\ 6 * call.absM = call.B * call.N
  /\ call.absM > 0

(***************************************************************************)
(* The adopted footing and the embedment that follows it (SpecAdopt)       *)
(***************************************************************************)
\* C27: after an auto design on a free-standing sign has adopted a footing
\* that passed the check during the search, and z has followed the adopted
\* thickness (automatic following on), the foundation check of the resulting
\* state passes.
C27_AdoptedFootingStillPasses ==
  (/\ lastOp = "AutoCalc"
   /\ signType = "freestanding"
   /\ lastAlert = "done"
   /\ embedDepthAuto) => fnd.ok

\* an adopted footing whose check passes with z = H - 0.1
C27_Witness ==
  /\ lastOp = "AutoCalc"
  /\ signType = "freestanding"
  /\ lastAlert = "done"
  /\ embedDepthAuto
  /\ embedDepth = footH - 2
  /\ fnd.ok

(***************************************************************************)
(* The embedment depth that follows the thickness (SpecFooting)            *)
(***************************************************************************)
\* C28: as long as no embedment depth has been typed (automatic following
\* on), every settled state has z = max(0, H - 0.1).
C28_EmbedDepthFollowsThickness ==
  embedDepthAuto => embedDepth = Max2(0, footH - 2)

\* a thickness edit that z has followed
C28_Witness ==
  /\ embedDepthAuto
  /\ lastOp = "SetFootH"
  /\ footH = 40
  /\ embedDepth = 38

WindOps == {"SetCfMode", "SetWindKz", "SetWindGf", "SetWindIw", "SetWindKd", "SetWindKt"}

\* C30: the what-if series agrees with the current inputs: after a change of
\* the wind mode or of one of the five modifiers it equals the series
\* recomputed from the current values, and for each sign type its entry at
\* the reference wind speed (34 m/s, the 8th entry) equals the main bending
\* ratio when no manual horizontal force is entered
C30_WhatIfAgreesWithInputs ==
  /\ lastOp \in WindOps => whatIf = whatIfSeries(whatIfArgs)
  /\ Fh_manual_total_N = 0 => whatIf[8].V = windV0 /\ whatIf[8].eta = etaColumn

\* after a change of a modifier the series on screen is not the recomputed one
C30_StaleAfterWindChange == lastOp \in WindOps => whatIf = whatIfSeries(whatIfArgs)

\* with a fresh series, the entry at the reference speed against the main ratio
C30_EntryAtV0 ==
  (Fh_manual_total_N = 0 /\ whatIfMemo = whatIfArgs) => whatIf[8].eta = etaColumn

\* the free-standing and the projecting sign do agree at the reference speed
C30_EntryAtV0_NotWall ==
  (Fh_manual_total_N = 0 /\ whatIfMemo = whatIfArgs /\ signType # "wall")
    => whatIf[8].eta = etaColumn

\* the Kz field was changed to 1.3 and the series is still the one built with
\* Kz = 1.0
C30_Witness ==
  /\ lastOp = "SetWindKz" /\ windKz = 13
  /\ whatIfMemo.windKz = 10
  /\ whatIf # whatIfSeries(whatIfArgs)

============================================================================
